---- MODULE Spec2Model ----
(***************************************************************************)
(* Model of the bank simulation engine (engine/simulation.ts,              *)
(* engine/loanCohorts.ts, engine/metrics.ts, engine/invariants.ts,         *)
(* engine/clone.ts, engine/ukMarketModel.ts).                              *)
(*                                                                         *)
(* Number representation.  The engine computes in double precision; the    *)
(* model computes in integers:                                             *)
(*   - money is counted in hundredths of a currency unit, so the code's    *)
(*     1e-2 is 1, and its tolerance of 1 unit is 100;                      *)
(*   - rates, ratios, probabilities and growth rates are in basis points   *)
(*     (1e-4), so 0.055 is 550 and the ratio 1.0 is 10000;                 *)
(*   - shock multipliers are in hundredths (1.5 is 150);                   *)
(*   - every quotient is rounded down once, where the code divides.        *)
(* The engine groups balanceSheet, capital and the two statements under    *)
(* state.financial, metrics and compliance under state.risk; the model     *)
(* keeps the components and drops the grouping level.                      *)
(***************************************************************************)
EXTENDS Integers, Sequences, FiniteSets, TLC

\* ------------------------------------------------------------------ bounds
MaxSteps == 2          \* number of engine steps explored from the opening state
MaxNow == 1            \* the wall clock (Date.now) takes values 0..MaxNow
DefaultTermMortgages == 3   \* loan.defaultTermMonths of mortgages in the explored config
DefaultTermCorporate == 2   \* loan.defaultTermMonths of corporate loans in the explored config
MaxOtherSteps == 2     \* number of engine steps of the second simulator
MaxLossMonths == 2     \* longest cohort step made with a one-off loss, in months
MaxMarketMonths == 2   \* longest market advance made on its own, in months
MaxProbeTerm == 3      \* longest term of a cohort stepped on its own

\* ------------------------------------------------------- program constants
MONTHS_IN_YEAR == 12
MAX_TERM_MONTHS_CAP == 420
BP == 100 * 100             \* one, in basis points
PCT == 10 * 10              \* one, in hundredths
CLEAN_EPS == 1              \* cleanCohorts EPS = 1e-2
IDENTITY_TOLERANCE == 100   \* checkInvariants: Math.abs(diff) > 1
PD_CAP == 9999              \* clamp(annualPd * pdMultiplier, 0, 0.999999)
ANNUITY_SCALE == 10 * 10 * 10   \* resolution of the annuity factor

\* ----------------------------------------------------------------- helpers
Min(a, b) == IF a <= b THEN a ELSE b
Max(a, b) == IF a >= b THEN a ELSE b
Abs(a) == IF a >= 0 THEN a ELSE -a

clamp(value, lo, hi) == Min(Max(value, lo), hi)

RECURSIVE SumSeq(_)
SumSeq(s) == IF Len(s) = 0 THEN 0 ELSE Head(s) + SumSeq(Tail(s))

\* ------------------------------------------------------------ product types
AssetProductType == {"CashReserves", "Gilts", "Mortgages", "CorporateLoans", "ReverseRepo"}
LiabilityProductType ==
  {"RetailDeposits", "CorporateDeposits", "WholesaleFundingST", "WholesaleFundingLT",
   "RepurchaseAgreements"}
ProductType == AssetProductType \cup LiabilityProductType

PRODUCT_META == [p \in ProductType |->
  [side |-> IF p \in AssetProductType THEN "Asset" ELSE "Liability",
   isLoan |-> p \in {"Mortgages", "CorporateLoans"},
   affectsBehaviouralLoanFlow |-> p \in {"Mortgages", "CorporateLoans"},
   loanBenchmark |-> IF p = "Mortgages" THEN "mortgage"
                     ELSE IF p = "CorporateLoans" THEN "corporate" ELSE "none",
   isCustomerDeposit |-> p \in {"RetailDeposits", "CorporateDeposits"},
   affectsBehaviouralDepositFlow |-> p \in {"RetailDeposits", "CorporateDeposits"},
   depositSegment |-> IF p = "RetailDeposits" THEN "retail"
                      ELSE IF p = "CorporateDeposits" THEN "corporate" ELSE "none"]]

isLoanProduct(p) == PRODUCT_META[p].isLoan

\* ------------------------------------------------------------------- config
\* baseConfig for a bank 2.5e9 times smaller than the shipped one (fixed costs scaled with it,
\* tolerances kept absolute) and with the default loan terms shortened to the bounds.
productParameters == [p \in ProductType |->
  [riskWeight |-> IF p = "Mortgages" THEN 35 ELSE IF p = "CorporateLoans" THEN 100 ELSE 0,
   baseDefaultRate |-> IF p = "Gilts" THEN 5 ELSE IF p = "Mortgages" THEN 40
                       ELSE IF p = "CorporateLoans" THEN 150 ELSE 0,
   lossGivenDefault |-> IF p = "Gilts" THEN 1000 ELSE IF p = "Mortgages" THEN 2500
                        ELSE IF p = "CorporateLoans" THEN 4500 ELSE 0,
   volumeElasticityToRate |-> IF p = "Mortgages" THEN -4 ELSE IF p = "CorporateLoans" THEN -3
                              ELSE IF p = "RetailDeposits" THEN 5
                              ELSE IF p = "CorporateDeposits" THEN 8 ELSE 0,
   defaultTermMonths |-> IF p = "Mortgages" THEN DefaultTermMortgages
                         ELSE IF p = "CorporateLoans" THEN DefaultTermCorporate ELSE 0,
   maxTermMonths |-> 420]]

\* HQLA level and the optional LCR / NSFR factors (-1 stands for `undefined`).  Every line
\* carries the tag of its product: the opening sheet and ensureLineItem both take it from here.
liquidityTags == [p \in ProductType |->
  [hqlaLevel |-> IF p \in {"CashReserves", "Gilts"} THEN "Level1" ELSE "None",
   lcrOutflowRate |-> IF p = "RetailDeposits" THEN 500 ELSE IF p = "CorporateDeposits" THEN 4000
                      ELSE IF p \in {"WholesaleFundingST", "RepurchaseAgreements"} THEN 10000
                      ELSE IF p = "WholesaleFundingLT" THEN 0 ELSE -1,
   lcrInflowRate |-> IF p \in {"CashReserves", "Gilts"} THEN 0
                     ELSE IF p \in {"Mortgages", "CorporateLoans"} THEN 500
                     ELSE IF p = "ReverseRepo" THEN 10000 ELSE -1,
   nsfrAsfFactor |-> IF p = "RetailDeposits" THEN 9500 ELSE IF p = "CorporateDeposits" THEN 5000
                     ELSE IF p = "WholesaleFundingLT" THEN 10000
                     ELSE IF p \in {"WholesaleFundingST", "RepurchaseAgreements"} THEN 0 ELSE -1,
   nsfrRsfFactor |-> IF p = "CashReserves" THEN 0 ELSE IF p = "Gilts" THEN 500
                     ELSE IF p = "Mortgages" THEN 8500 ELSE IF p = "CorporateLoans" THEN 10000
                     ELSE IF p = "ReverseRepo" THEN 1000 ELSE -1]]

config ==
  [productParameters |-> productParameters,
   liquidityTags |-> liquidityTags,
   global |-> [taxRate |-> 2500, operatingCostRatio |-> 200, maxDepositGrowthPerStep |-> 800,
               maxLoanGrowthPerStep |-> 500, fixedOperatingCostPerMonth |-> 2],
   riskLimits |-> [minCet1Ratio |-> 1050, minLeverageRatio |-> 350, minLcr |-> 10000,
                   minNsfr |-> 10000],
   behaviour |-> [depositBaselineGrowthMonthly |-> 20, loanBaselineGrowthMonthly |-> 0,
                  minDepositGrowthPerStep |-> -1000, minLoanGrowthPerStep |-> -200,
                  loanFeeRateMonthly |-> 10],
   shockParameters |-> [idiosyncraticRun |->
                          [baseRunOffRate |-> 1000, incrementalRate |-> 1000,
                           maxRunOffRate |-> 5000]],
   tolerances |-> [cashFlowRoundingTolerance |-> 1, cashFlowBreachThreshold |-> 100]]

HQLA_FACTORS == [l \in {"Level1", "Level2A", "Level2B", "None"} |->
  IF l = "Level1" THEN 10000 ELSE IF l = "Level2A" THEN 8500 ELSE IF l = "Level2B" THEN 5000 ELSE 0]

\* ------------------------------------------------------- balance-sheet access
\* Index of the line of a product in the item list, 0 when there is none (Array.find).
findIndex(items, productType) ==
  IF \E i \in 1..Len(items) : items[i].productType = productType
  THEN CHOOSE i \in 1..Len(items) :
         /\ items[i].productType = productType
         /\ \A j \in 1..(i - 1) : items[j].productType # productType
  ELSE 0

hasLine(st, productType) == findIndex(st.balanceSheet, productType) # 0

findItem(st, productType) == st.balanceSheet[findIndex(st.balanceSheet, productType)]

balanceOf(st, productType) ==
  IF hasLine(st, productType) THEN findItem(st, productType).balance ELSE 0

setBalance(st, productType, b) ==
  [st EXCEPT !.balanceSheet[findIndex(st.balanceSheet, productType)].balance = b]

\* ------------------------------------------------------------------- events
\* createEvent: the id is built from Date.now() and the module-level counter eventSequence,
\* which is incremented at every event.  c is the running step: the state being mutated, the
\* event list, the counter, the clock reading and whether an exception was thrown.
Message(text, product, amount) == [text |-> text, product |-> product, amount |-> amount]

createEvent(c, severity, message) ==
  [c EXCEPT !.events = Append(@, [id |-> <<c.now, c.eventSequence>>, severity |-> severity,
                                  message |-> message, timestamp |-> c.now]),
            !.eventSequence = @ + 1]

\* -------------------------------------------------------------- cash helpers
adjustCashOrFail(c, delta) ==
  IF ~hasLine(c.st, "CashReserves") THEN c
  ELSE LET nb == balanceOf(c.st, "CashReserves") + delta IN
       IF nb >= 0 THEN [c EXCEPT !.st = setBalance(@, "CashReserves", nb)]
       ELSE createEvent(
              [c EXCEPT !.st = [setBalance(@, "CashReserves", 0) EXCEPT !.status.hasFailed = TRUE]],
              "error", Message("Cash balance breached after flow", "CashReserves", -nb))

\* Returns the running step and the amount actually paid.
applyCashOutflowOrFail(c, outflow) ==
  IF outflow <= 0 THEN [c |-> c, paid |-> 0]
  ELSE IF ~hasLine(c.st, "CashReserves") THEN [c |-> c, paid |-> 0]
  ELSE LET cash == balanceOf(c.st, "CashReserves")
           paid == Max(0, Min(outflow, cash))
           c1 == [c EXCEPT !.st = setBalance(@, "CashReserves", cash - paid)]
           shortfall == outflow - paid
       IN IF shortfall <= 0 THEN [c |-> c1, paid |-> paid]
          ELSE [c |-> createEvent([c1 EXCEPT !.st.status.hasFailed = TRUE], "error",
                                  Message("Cash balance breached after outflow", "CashReserves", shortfall)),
                paid |-> paid]

\* ------------------------------------------------------------- loan cohorts
\* state.loanCohorts is an object keyed by product type; the model keeps it as the list of
\* its entries in insertion order (the order of Object.keys / Object.entries).
cohortIndex(st, productType) ==
  IF \E i \in 1..Len(st.loanCohorts) : st.loanCohorts[i].productType = productType
  THEN CHOOSE i \in 1..Len(st.loanCohorts) : st.loanCohorts[i].productType = productType
  ELSE 0

\* getLoanCohortsArray creates the entry (an empty array) when the product has none.
getLoanCohortsArray(st, productType) ==
  IF cohortIndex(st, productType) # 0 THEN st
  ELSE [st EXCEPT !.loanCohorts = Append(@, [productType |-> productType, cohorts |-> << >>])]

cohortsOf(st, productType) ==
  IF cohortIndex(st, productType) = 0 THEN << >>
  ELSE st.loanCohorts[cohortIndex(st, productType)].cohorts

setCohorts(st, productType, cs) ==
  [st EXCEPT !.loanCohorts[cohortIndex(st, productType)].cohorts = cs]

RECURSIVE sumLoanOutstanding(_)
sumLoanOutstanding(cohorts) ==
  IF cohorts = << >> THEN 0
  ELSE Head(cohorts).outstandingPrincipal + sumLoanOutstanding(Tail(cohorts))

RECURSIVE syncEntries(_, _)
syncEntries(st, i) ==
  IF i > Len(st.loanCohorts) THEN st
  ELSE LET e == st.loanCohorts[i] IN
       IF ~isLoanProduct(e.productType) \/ ~hasLine(st, e.productType) THEN syncEntries(st, i + 1)
       ELSE syncEntries(setBalance(st, e.productType, sumLoanOutstanding(e.cohorts)), i + 1)

\* The sync as it would be with a return inside the loop: only the first entry is written back.
syncFirstEntryOnly(st) ==
  IF Len(st.loanCohorts) = 0 THEN st
  ELSE LET e == st.loanCohorts[1] IN
       IF ~isLoanProduct(e.productType) \/ ~hasLine(st, e.productType) THEN st
       ELSE setBalance(st, e.productType, sumLoanOutstanding(e.cohorts))

syncLoanBalancesFromCohorts(st) == syncEntries(st, 1)

cohortIsLive(c) == ~(c.outstandingPrincipal <= CLEAN_EPS \/ c.ageMonths >= c.termMonths)

\* The cleanup as it would be if it removed nothing: repaid and matured cohorts stay.
cleanCohortsKeepAll(cohorts) == cohorts

cleanCohorts(cohorts) == SelectSeq(cohorts, cohortIsLive)

\* TRUE when validateCohort returns, FALSE when it throws.  All model numbers are finite
\* integers, which leaves the range checks.
validateCohort(cohort, maxTermMonths) ==
  /\ ~(cohort.outstandingPrincipal < 0)
  /\ ~(cohort.originalPrincipal < 0)
  /\ ~(cohort.annualInterestRate < 0)
  /\ ~(cohort.termMonths <= 0)
  /\ ~(cohort.termMonths > maxTermMonths \/ cohort.termMonths > MAX_TERM_MONTHS_CAP)
  /\ ~(cohort.ageMonths < 0)
  /\ ~(cohort.ageMonths >= cohort.termMonths)
  /\ ~(cohort.annualPd < 0)
  /\ ~(cohort.lgd < 0 \/ cohort.lgd > BP)

getMaxTermMonths(cfg, productType) ==
  Min(MAX_TERM_MONTHS_CAP, cfg.productParameters[productType].maxTermMonths)

\* upsertOriginationCohort, called without a termMonths argument (as the engine does).
\* Result: the state, the funded principal, and whether an exception was thrown.
upsertOriginationCohort(st, cfg, productType, cohortId, principalArg, annualInterestRate, annualPd, lgd) ==
  LET principal == Max(0, principalArg)
      availableCash == Max(0, balanceOf(st, "CashReserves"))
      fundedPrincipal == Min(principal, availableCash)
      defaultTerm == cfg.productParameters[productType].defaultTermMonths
      termMonths == Min(getMaxTermMonths(cfg, productType), defaultTerm)
      st1 == getLoanCohortsArray(st, productType)
      cohorts == cohortsOf(st1, productType)
      k == IF \E i \in 1..Len(cohorts) : cohorts[i].cohortId = cohortId
           THEN CHOOSE i \in 1..Len(cohorts) :
                  /\ cohorts[i].cohortId = cohortId
                  /\ \A j \in 1..(i - 1) : cohorts[j].cohortId # cohortId
           ELSE 0
      st2 == setBalance(st1, "CashReserves", balanceOf(st1, "CashReserves") - fundedPrincipal)
      merged ==
        LET existing == cohorts[k]
            w0 == Max(0, existing.outstandingPrincipal)
            w1 == fundedPrincipal
            w == w0 + w1
        IN [existing EXCEPT
              !.outstandingPrincipal = @ + fundedPrincipal,
              !.originalPrincipal = @ + fundedPrincipal,
              !.annualInterestRate = IF w > 0 THEN (@ * w0 + annualInterestRate * w1) \div w
                                     ELSE annualInterestRate,
              !.annualPd = IF w > 0 THEN (@ * w0 + annualPd * w1) \div w ELSE annualPd,
              !.lgd = IF w > 0 THEN (@ * w0 + lgd * w1) \div w ELSE lgd,
              !.termMonths = Max(@, termMonths),
              !.ageMonths = Min(@, 0)]
      created ==
        [productType |-> productType, cohortId |-> cohortId,
         originalPrincipal |-> fundedPrincipal, outstandingPrincipal |-> fundedPrincipal,
         annualInterestRate |-> Max(0, annualInterestRate), termMonths |-> termMonths,
         ageMonths |-> 0, annualPd |-> Max(0, annualPd), lgd |-> clamp(lgd, 0, BP)]
      updated == IF k # 0 THEN [cohorts EXCEPT ![k] = merged] ELSE Append(cohorts, created)
  IN IF ~isLoanProduct(productType) THEN [st |-> st, funded |-> 0, thrown |-> FALSE]
     ELSE IF principal <= 0 THEN [st |-> st, funded |-> 0, thrown |-> FALSE]
     ELSE IF fundedPrincipal <= 0 THEN [st |-> st, funded |-> 0, thrown |-> FALSE]
     ELSE IF defaultTerm = 0 \/ termMonths <= 0 THEN [st |-> st, funded |-> 0, thrown |-> TRUE]
     ELSE IF ~hasLine(st1, "CashReserves") THEN [st |-> st1, funded |-> 0, thrown |-> TRUE]
     ELSE [st |-> syncLoanBalancesFromCohorts(
                    setCohorts(st2, productType, cleanCohorts(updated))),
           funded |-> fundedPrincipal, thrown |-> FALSE]

\* The allocation loop shared by prepayments and extra-loss write-downs: cohort i takes
\* its pro-rata share of `actual`, the last cohort takes what remains.  The shares of the
\* code are real numbers that add up to `actual`; the model rounds their running sum down
\* to the tick, so that they still add up to `actual` and none exceeds its cohort.
\* `actual - remaining` is what the cohorts before i have taken.
RECURSIVE allocateReduction(_, _, _, _, _)
allocateReduction(cohorts, i, actual, total, remaining) ==
  IF i > Len(cohorts) \/ remaining <= 0 THEN cohorts
  ELSE LET c == cohorts[i]
           upToHere == sumLoanOutstanding(SubSeq(cohorts, 1, i)) + (actual - remaining)
           base == IF i = Len(cohorts) THEN remaining
                   ELSE (actual * upToHere) \div total - (actual - remaining)
           reduction == Min(c.outstandingPrincipal, Max(0, base))
       IN allocateReduction([cohorts EXCEPT ![i].outstandingPrincipal = @ - reduction],
                            i + 1, actual, total, remaining - reduction)

\* Result: the state, the amount prepaid, and whether an exception was thrown.
applyExtraPrepayment(st, productType, amount) ==
  LET st1 == getLoanCohortsArray(st, productType)
      cohorts == cohortsOf(st1, productType)
      totalOutstanding == sumLoanOutstanding(cohorts)
      requested == Max(0, amount)
      actual == Min(requested, totalOutstanding)
      reduced == allocateReduction(cohorts, 1, actual, totalOutstanding, actual)
      st2 == setBalance(st1, "CashReserves", balanceOf(st1, "CashReserves") + actual)
  IN IF ~isLoanProduct(productType) THEN [st |-> st, paid |-> 0, thrown |-> FALSE]
     ELSE IF actual <= 0 THEN [st |-> st1, paid |-> 0, thrown |-> FALSE]
     ELSE IF ~hasLine(st1, "CashReserves")
          THEN [st |-> setCohorts(st1, productType, reduced), paid |-> 0, thrown |-> TRUE]
     ELSE [st |-> syncLoanBalancesFromCohorts(
                    setCohorts(st2, productType, cleanCohorts(reduced))),
           paid |-> actual, thrown |-> FALSE]

\* Sum of (1+r)^k for k < n with r = annualRate / 12, at resolution ANNUITY_SCALE:
\* ((1+r)^n - 1) / r, the factor by which the fixed payment exceeds the first principal part.
RECURSIVE annuityFactor(_, _)
annuityFactor(annualRate, n) ==
  IF n <= 1 THEN ANNUITY_SCALE
  ELSE ANNUITY_SCALE
       + (annuityFactor(annualRate, n - 1) * (MONTHS_IN_YEAR * BP + annualRate))
           \div (MONTHS_IN_YEAR * BP)

\* The payment as it would be with equal principal instalments plus the first month's
\* interest, instead of the level annuity.
monthlyPaymentStraightLine(outstandingPrincipal, annualRate, remainingMonths) ==
  IF remainingMonths <= 0 THEN outstandingPrincipal
  ELSE outstandingPrincipal \div remainingMonths
       + (outstandingPrincipal * annualRate) \div (MONTHS_IN_YEAR * BP)

\* monthlyPayment: P*r / (1 - (1+r)^-n), written as P*r + P*r / ((1+r)^n - 1) so that the
\* integer quotient repays the whole principal when one month remains, as the code's does.
\* (The code's guard for a vanishing denominator cannot fire for r >= 1e-12 and n >= 1.)
monthlyPayment(outstandingPrincipal, annualRate, remainingMonths) ==
  IF remainingMonths <= 0 THEN outstandingPrincipal
  ELSE IF annualRate = 0 THEN outstandingPrincipal \div remainingMonths
  ELSE (outstandingPrincipal * annualRate) \div (MONTHS_IN_YEAR * BP)
       + (outstandingPrincipal * ANNUITY_SCALE) \div annuityFactor(annualRate, remainingMonths)

\* Integer roots, rounded down.
RECURSIVE rootSearch(_, _, _, _)
rootSearch(n, k, lo, hi) ==
  IF lo >= hi THEN lo
  ELSE LET mid == (lo + hi + 1) \div 2
           pw == IF k = 2 THEN mid * mid ELSE mid * mid * mid
       IN IF pw <= n THEN rootSearch(n, k, mid, hi) ELSE rootSearch(n, k, lo, mid - 1)

\* pdMonth = 1 - (1 - annualPd)^(1/12): the twelfth root is taken as two square roots (at
\* 1e-4) and a cube root (at 1e-3) of the survival probability, each rounded down.
pdMonthOf(annualPd) ==
  LET s1 == rootSearch((BP - annualPd) * BP, 2, 0, BP)
      s2 == rootSearch(s1 * BP, 2, 0, BP)
      s3 == rootSearch((s2 \div 10) * 1000000, 3, 0, 1000)
  IN BP - s3 * 10

\* One month of one live cohort, given the payment due, the monthly default probability
\* and the stressed loss given default.
cohortMonth(cohort, pmt, pdMonth, lgd) ==
  LET interest == (cohort.outstandingPrincipal * cohort.annualInterestRate)
                    \div (MONTHS_IN_YEAR * BP)
      principal == Min(cohort.outstandingPrincipal, Max(0, pmt - interest))
      afterPayment == cohort.outstandingPrincipal - principal
      defaulted == Max(0, (afterPayment * pdMonth) \div BP)
      loss == IF defaulted > 0 THEN (defaulted * lgd) \div BP ELSE 0
      recovery == IF defaulted > 0 THEN defaulted - loss ELSE 0
  IN [cohort |-> [cohort EXCEPT !.outstandingPrincipal = afterPayment - defaulted,
                                !.ageMonths = @ + 1],
      cash |-> interest + principal + recovery,
      interest |-> interest,
      loss |-> loss]

\* stepLoanCohorts, body of cohorts.forEach after the checks.
stepOneCohort(cohort, pdMultiplier, lgdMultiplier) ==
  cohortMonth(cohort,
              monthlyPayment(cohort.outstandingPrincipal, cohort.annualInterestRate,
                             cohort.termMonths - cohort.ageMonths),
              pdMonthOf(clamp((cohort.annualPd * pdMultiplier) \div PCT, 0, PD_CAP)),
              clamp((cohort.lgd * lgdMultiplier) \div PCT, 0, BP))

\* The accumulators of cohorts.forEach after cohort i has been stepped into r.
addCohortMonth(acc, i, r) ==
  [cohorts |-> [acc.cohorts EXCEPT ![i] = r.cohort],
   cash |-> acc.cash + r.cash,
   interest |-> acc.interest + r.interest,
   loss |-> acc.loss + r.loss,
   thrown |-> FALSE]

\* cohorts.forEach of one product in one month.  acc carries the cohort list, the cash
\* credited, the interest, the loss and whether validateCohort threw.
RECURSIVE stepCohortList(_, _, _, _, _)
stepCohortList(acc, i, maxTermMonths, pdMultiplier, lgdMultiplier) ==
  IF i > Len(acc.cohorts) \/ acc.thrown THEN acc
  ELSE LET cohort == acc.cohorts[i] IN
       IF cohort.outstandingPrincipal <= 0 \/ cohort.ageMonths >= cohort.termMonths
       THEN stepCohortList(acc, i + 1, maxTermMonths, pdMultiplier, lgdMultiplier)
       ELSE IF ~validateCohort(cohort, maxTermMonths) THEN [acc EXCEPT !.thrown = TRUE]
       ELSE stepCohortList(
              addCohortMonth(acc, i, stepOneCohort(cohort, pdMultiplier, lgdMultiplier)),
              i + 1, maxTermMonths, pdMultiplier, lgdMultiplier)

\* One product in one month once its cohorts have been stepped into r: the list is cleaned
\* and the cash collected is credited.
creditProduct(res, productType, r) ==
  LET st1 == getLoanCohortsArray(res.st, productType) IN
  IF r.thrown THEN [res EXCEPT !.thrown = TRUE]
  ELSE [st |-> setBalance(setCohorts(st1, productType, cleanCohorts(r.cohorts)),
                          "CashReserves", balanceOf(st1, "CashReserves") + r.cash),
        loanInterestIncome |-> res.loanInterestIncome + r.interest,
        recognizedLoanLosses |->
          [res.recognizedLoanLosses EXCEPT ![productType] = @ + r.loss],
        thrown |-> FALSE]

stepProduct(res, productType, cfg, pdMultiplier, lgdMultiplier) ==
  creditProduct(
    res, productType,
    stepCohortList([cohorts |-> cohortsOf(getLoanCohortsArray(res.st, productType), productType),
                    cash |-> 0, interest |-> 0, loss |-> 0, thrown |-> FALSE],
                   1, getMaxTermMonths(cfg, productType), pdMultiplier, lgdMultiplier))

\* loanProductTypes.forEach of one month; keys is the key list taken before the loop.
\* res carries the state, loanInterestIncome, recognizedLoanLosses and the thrown flag.
RECURSIVE stepProducts(_, _, _, _, _, _)
stepProducts(res, keys, j, cfg, pdMultiplier, lgdMultiplier) ==
  IF j > Len(keys) \/ res.thrown THEN res
  ELSE stepProducts(IF isLoanProduct(keys[j])
                    THEN stepProduct(res, keys[j], cfg, pdMultiplier, lgdMultiplier)
                    ELSE res,
                    keys, j + 1, cfg, pdMultiplier, lgdMultiplier)

RECURSIVE stepMonths(_, _, _, _, _, _, _)
stepMonths(res, keys, m, dtMonths, cfg, pdMultiplier, lgdMultiplier) ==
  IF m >= dtMonths \/ res.thrown THEN res
  ELSE stepMonths(stepProducts(res, keys, 1, cfg, pdMultiplier, lgdMultiplier),
                  keys, m + 1, dtMonths, cfg, pdMultiplier, lgdMultiplier)

\* The write-down of one product once the loss has been allocated over its cohorts.
writeDownCohorts(res, st1, productType, total, written) ==
  [res EXCEPT
     !.st = setCohorts(st1, productType, cleanCohorts(written)),
     !.recognizedLoanLosses[productType] = @ + (total - sumLoanOutstanding(written))]

\* extraEntries.forEach: the one-off write-down of one product.
applyExtraLoss(res, productType, loss) ==
  LET st1 == getLoanCohortsArray(res.st, productType)
      cohorts == cohortsOf(st1, productType)
      total == sumLoanOutstanding(cohorts)
      lossToApply == Min(loss, total)
  IN IF ~isLoanProduct(productType) \/ loss <= 0 THEN res
     ELSE IF total <= 0 THEN [res EXCEPT !.st = st1]
     ELSE writeDownCohorts(res, st1, productType, total,
                           allocateReduction(cohorts, 1, lossToApply, total, lossToApply))

NoLosses == [p \in ProductType |-> 0]

\* The products that can carry an extra loss, in a fixed order (the write-downs of
\* different products do not interact).
LossOrder == <<"CashReserves", "Gilts", "Mortgages", "CorporateLoans", "ReverseRepo">>

RECURSIVE applyExtraLosses(_, _, _)
applyExtraLosses(res, extraLosses, k) ==
  IF k > Len(LossOrder) THEN res
  ELSE applyExtraLosses(applyExtraLoss(res, LossOrder[k], extraLosses[LossOrder[k]]),
                        extraLosses, k + 1)

\* After the monthly loop: the one-off write-downs and the final sync.
finishCohortStep(monthly, extraLossesByProduct) ==
  IF monthly.thrown THEN monthly
  ELSE [applyExtraLosses(monthly, extraLossesByProduct, 1)
          EXCEPT !.st = syncLoanBalancesFromCohorts(@)]

stepLoanCohorts(st, cfg, dtMonthsArg, pdMultiplier, lgdMultiplier, extraLossesByProduct) ==
  LET dtMonths == Max(0, dtMonthsArg)
      start == [st |-> st, loanInterestIncome |-> 0, recognizedLoanLosses |-> NoLosses,
                thrown |-> FALSE]
      keys == [i \in 1..Len(st.loanCohorts) |-> st.loanCohorts[i].productType]
  IN IF dtMonths = 0 THEN start
     ELSE IF ~hasLine(st, "CashReserves") THEN [start EXCEPT !.thrown = TRUE]
     ELSE finishCohortStep(stepMonths(start, keys, 0, dtMonths, cfg, pdMultiplier,
                                      lgdMultiplier),
                           extraLossesByProduct)

\* ------------------------------------------------------------------ actions
adjustInterestRate(st, productType, newRate) ==
  IF ~hasLine(st, productType) THEN st
  ELSE [st EXCEPT !.balanceSheet[findIndex(st.balanceSheet, productType)].interestRate = newRate]

applyIssueEquity(c, amount) ==
  LET st1 == [c.st EXCEPT !.capital.cet1 = @ + amount]
      st2 == IF hasLine(st1, "CashReserves")
             THEN setBalance(st1, "CashReserves", balanceOf(st1, "CashReserves") + amount)
             ELSE st1
  IN createEvent([c EXCEPT !.st = st2], "info", Message("Issued equity", "CashReserves", amount))

blendRate(existingBalance, existingRate, newAmount, newRate) ==
  IF existingBalance + newAmount = 0 THEN newRate
  ELSE (existingBalance * existingRate + newAmount * newRate) \div (existingBalance + newAmount)

\* ensureLineItem as it would be if it appended a line without looking for one.
ensureLineItemAlwaysNew(st, side, productType, rate) ==
  [st EXCEPT !.balanceSheet =
     Append(@, [side |-> side, productType |-> productType, balance |-> 0,
                interestRate |-> rate, encumberedAmount |-> 0])]

\* The line of the product, appended with balance 0 when the sheet has none.
ensureLineItem(st, side, productType, rate) ==
  IF hasLine(st, productType) THEN st
  ELSE [st EXCEPT !.balanceSheet =
          Append(@, [side |-> side, productType |-> productType, balance |-> 0,
                     interestRate |-> rate, encumberedAmount |-> 0])]

applyIssueDebt(c, productType, amount, rateGiven, rateOverride) ==
  IF ~hasLine(c.st, "CashReserves") THEN c
  ELSE LET m == c.st.market
           pricingRate == IF rateGiven THEN rateOverride
                          ELSE IF productType = "WholesaleFundingST"
                               THEN m.riskFreeShort + m.wholesaleFundingSpread
                               ELSE m.riskFreeLong + m.seniorDebtSpread
           st1 == ensureLineItem(c.st, "Liability", productType, pricingRate)
           i == findIndex(st1.balanceSheet, productType)
           line == st1.balanceSheet[i]
           st2 == [st1 EXCEPT
                     !.balanceSheet[i].interestRate =
                        blendRate(line.balance, line.interestRate, amount, pricingRate),
                     !.balanceSheet[i].balance = @ + amount]
           st3 == setBalance(st2, "CashReserves", balanceOf(st2, "CashReserves") + amount)
       IN createEvent([c EXCEPT !.st = st3], "info", Message("Issued debt", productType, amount))

\* applyBuySellAsset on a loan product once the origination r has been booked.
loanBought(c, productType, amountDelta, r) ==
  IF r.thrown THEN [c EXCEPT !.thrown = TRUE]
  ELSE createEvent(IF r.funded < amountDelta
                   THEN createEvent([c EXCEPT !.st = r.st], "warning",
                                    Message("Insufficient cash to buy", productType, r.funded))
                   ELSE [c EXCEPT !.st = r.st],
                   "info", Message("Bought", productType, r.funded))

\* applyBuySellAsset on a loan product once the prepayment r has been booked.
loanSold(c, productType, r) ==
  IF r.thrown THEN [c EXCEPT !.thrown = TRUE]
  ELSE createEvent([c EXCEPT !.st = r.st], "info", Message("Sold", productType, r.paid))

applyBuySellAsset(c, cfg, productType, amountDelta) ==
  IF ~hasLine(c.st, productType) \/ ~hasLine(c.st, "CashReserves") THEN c
  ELSE IF isLoanProduct(productType) THEN
    LET params == cfg.productParameters[productType] IN
    IF amountDelta >= 0
    THEN loanBought(c, productType, amountDelta,
                    upsertOriginationCohort(c.st, cfg, productType, c.st.time.step, amountDelta,
                                            findItem(c.st, productType).interestRate,
                                            params.baseDefaultRate, params.lossGivenDefault))
    ELSE loanSold(c, productType, applyExtraPrepayment(c.st, productType, Abs(amountDelta)))
  ELSE IF amountDelta >= 0 THEN
    LET cash == balanceOf(c.st, "CashReserves")
        buyAmount == Min(amountDelta, Max(0, cash))
        st1 == setBalance(c.st, productType, balanceOf(c.st, productType) + buyAmount)
        st2 == setBalance(st1, "CashReserves", balanceOf(st1, "CashReserves") - buyAmount)
        c1 == [c EXCEPT !.st = st2]
        c2 == IF buyAmount < amountDelta
              THEN createEvent(c1, "warning",
                               Message("Insufficient cash to buy", productType, buyAmount))
              ELSE c1
    IN createEvent(c2, "info", Message("Bought", productType, buyAmount))
  ELSE
    LET sellAmount == Min(balanceOf(c.st, productType), Abs(amountDelta))
        st1 == setBalance(c.st, productType, balanceOf(c.st, productType) - sellAmount)
    IN createEvent(adjustCashOrFail([c EXCEPT !.st = st1], sellAmount), "info",
                   Message("Sold", productType, sellAmount))

\* The repo borrowing as it would be if collateral already encumbered could be pledged again.
applyRepoBorrowAgainstWholeBalance(c, collateralProduct, amount, haircutGiven, haircut, rate) ==
  IF ~hasLine(c.st, "CashReserves") THEN c
  ELSE LET hasCollateral == hasLine(c.st, collateralProduct)
           effectiveHaircut == Max(0, IF haircutGiven THEN haircut ELSE 0)
           collateralRequirement == BP + effectiveHaircut
           availableCollateral ==
             IF hasCollateral THEN Max(0, findItem(c.st, collateralProduct).balance) ELSE 0
           maxBorrow == IF collateralRequirement > 0
                        THEN (availableCollateral * BP) \div collateralRequirement ELSE 0
           borrowAmount == Min(amount, maxBorrow)
           st1 == ensureLineItem(c.st, "Liability", "RepurchaseAgreements", rate)
           i == findIndex(st1.balanceSheet, "RepurchaseAgreements")
           funding == st1.balanceSheet[i]
           st2 == [st1 EXCEPT
                     !.balanceSheet[i].interestRate =
                        blendRate(funding.balance, funding.interestRate, borrowAmount, rate),
                     !.balanceSheet[i].balance = @ + borrowAmount]
           st3 == setBalance(st2, "CashReserves", balanceOf(st2, "CashReserves") + borrowAmount)
           k == findIndex(st3.balanceSheet, collateralProduct)
           encumbered == Min(st3.balanceSheet[k].balance,
                             (borrowAmount * collateralRequirement) \div BP)
           st4 == IF hasCollateral
                  THEN [st3 EXCEPT !.balanceSheet[k].encumberedAmount =
                          clamp(@ + encumbered, 0, st3.balanceSheet[k].balance)]
                  ELSE st3
       IN IF borrowAmount <= 0
          THEN createEvent(c, "warning", Message("Repo borrow failed", collateralProduct, 0))
          ELSE createEvent([c EXCEPT !.st = st4], "info",
                           Message("Repo borrow", collateralProduct, borrowAmount))

applyRepoBorrow(c, collateralProduct, amount, haircutGiven, haircut, rate) ==
  IF ~hasLine(c.st, "CashReserves") THEN c
  ELSE LET hasCollateral == hasLine(c.st, collateralProduct)
           effectiveHaircut == Max(0, IF haircutGiven THEN haircut ELSE 0)
           collateralRequirement == BP + effectiveHaircut
           availableCollateral ==
             IF hasCollateral
             THEN Max(0, findItem(c.st, collateralProduct).balance
                           - findItem(c.st, collateralProduct).encumberedAmount)
             ELSE 0
           maxBorrow == IF collateralRequirement > 0
                        THEN (availableCollateral * BP) \div collateralRequirement ELSE 0
           borrowAmount == Min(amount, maxBorrow)
           st1 == ensureLineItem(c.st, "Liability", "RepurchaseAgreements", rate)
           i == findIndex(st1.balanceSheet, "RepurchaseAgreements")
           funding == st1.balanceSheet[i]
           st2 == [st1 EXCEPT
                     !.balanceSheet[i].interestRate =
                        blendRate(funding.balance, funding.interestRate, borrowAmount, rate),
                     !.balanceSheet[i].balance = @ + borrowAmount]
           st3 == setBalance(st2, "CashReserves", balanceOf(st2, "CashReserves") + borrowAmount)
           k == findIndex(st3.balanceSheet, collateralProduct)
           encumbered == Min(st3.balanceSheet[k].balance,
                             (borrowAmount * collateralRequirement) \div BP)
           st4 == IF hasCollateral
                  THEN [st3 EXCEPT !.balanceSheet[k].encumberedAmount =
                          clamp(@ + encumbered, 0, st3.balanceSheet[k].balance)]
                  ELSE st3
       IN IF borrowAmount <= 0
          THEN createEvent(c, "warning", Message("Repo borrow failed", collateralProduct, 0))
          ELSE createEvent([c EXCEPT !.st = st4], "info",
                           Message("Repo borrow", collateralProduct, borrowAmount))

applyRepoLend(c, amount, rate) ==
  IF ~hasLine(c.st, "CashReserves") THEN c
  ELSE LET st1 == ensureLineItem(c.st, "Asset", "ReverseRepo", rate)
           i == findIndex(st1.balanceSheet, "ReverseRepo")
           reverseRepo == st1.balanceSheet[i]
           lendAmount == Min(balanceOf(st1, "CashReserves"), amount)
           st2 == [st1 EXCEPT
                     !.balanceSheet[i].interestRate =
                        blendRate(reverseRepo.balance, reverseRepo.interestRate, lendAmount, rate),
                     !.balanceSheet[i].balance = @ + lendAmount]
           st3 == setBalance(st2, "CashReserves", balanceOf(st2, "CashReserves") - lendAmount)
       IN createEvent([c EXCEPT !.st = st3], "info", Message("Repo lend", "ReverseRepo", lendAmount))

applyEnterRepo(c, direction, collateralProduct, amount, haircutGiven, haircut, rate) ==
  IF direction = "borrow"
  THEN applyRepoBorrow(c, collateralProduct, amount, haircutGiven, haircut, rate)
  ELSE applyRepoLend(c, amount, rate)

\* actionHandlers and the dispatcher's fallback for a type without a handler.
dispatchAction(action, c, cfg) ==
  CASE action.type = "adjustRate" ->
         createEvent([c EXCEPT !.st = adjustInterestRate(@, action.productType, action.newRate)],
                     "info", Message("Adjusted rate", action.productType, action.newRate))
    [] action.type = "issueEquity" -> applyIssueEquity(c, action.amount)
    [] action.type = "issueDebt" ->
         applyIssueDebt(c, action.productType, action.amount, action.rateGiven, action.rate)
    [] action.type = "buySellAsset" ->
         applyBuySellAsset(c, cfg, action.productType, action.amountDelta)
    [] action.type = "enterRepo" ->
         applyEnterRepo(c, action.direction, action.collateralProduct, action.amount,
                        action.haircutGiven, action.haircut,
                        IF action.rateGiven THEN action.rate ELSE c.st.market.baseRate)
    [] OTHER -> createEvent(c, "warning", Message("No handler for action type", "CashReserves", 0))

RECURSIVE applyActions(_, _, _, _)
applyActions(c, cfg, actions, i) ==
  IF i > Len(actions) \/ c.thrown THEN c
  ELSE applyActions(dispatchAction(actions[i], c, cfg), cfg, actions, i + 1)

\* ------------------------------------------------------------------- shocks
applyCounterpartyDefault(c, productType, lossAmount) ==
  LET loss == Max(0, lossAmount) IN
  createEvent([c EXCEPT !.extraLosses[productType] = @ + loss,
                        !.extraLossKeys = @ \cup {productType}],
              "warning", Message("Counterparty default", productType, loss))

\* The run as it would be if depositors were credited their whole demand whatever cash paid.
idiosyncraticRunPayingEveryDemand(c, cfg, outflowRateMultiplier) ==
  LET c0 == [c EXCEPT !.lcrOutflowMultiplier = (@ * outflowRateMultiplier) \div PCT]
      hasRetail == hasLine(c.st, "RetailDeposits")
      hasCorporate == hasLine(c.st, "CorporateDeposits")
      runParams == cfg.shockParameters.idiosyncraticRun
      incremental == (Max(0, outflowRateMultiplier - PCT) * runParams.incrementalRate) \div PCT
      runOffRate == Min(runParams.maxRunOffRate, runParams.baseRunOffRate + incremental)
      retailRequested == IF hasRetail
                         THEN (balanceOf(c.st, "RetailDeposits") * runOffRate) \div BP ELSE 0
      corporateRequested == IF hasCorporate
                            THEN (balanceOf(c.st, "CorporateDeposits") * runOffRate) \div BP ELSE 0
      totalRequested == retailRequested + corporateRequested
      r == applyCashOutflowOrFail(c0, totalRequested)
      totalPaid == totalRequested
      allocationBase == IF totalRequested > 0 THEN totalRequested ELSE 1
      rawRetailPaid == IF hasRetail THEN (totalPaid * retailRequested) \div allocationBase ELSE 0
      retailPaid == Min(totalPaid, Max(0, rawRetailPaid))
      corporatePaid == IF hasCorporate THEN Max(0, totalPaid - retailPaid) ELSE 0
      c1 == IF ~hasRetail THEN r.c
            ELSE LET d == createEvent(
                            [r.c EXCEPT !.st = setBalance(@, "RetailDeposits",
                                                 balanceOf(@, "RetailDeposits") - retailPaid)],
                            "warning",
                            Message("Idiosyncratic run reduced retail deposits", "RetailDeposits",
                                    retailPaid))
                 IN IF retailPaid < retailRequested
                    THEN createEvent(d, "error",
                                     Message("Unmet retail withdrawal demand", "RetailDeposits",
                                             retailRequested - retailPaid))
                    ELSE d
      c2 == IF ~hasCorporate THEN c1
            ELSE LET d == createEvent(
                            [c1 EXCEPT !.st = setBalance(@, "CorporateDeposits",
                                                balanceOf(@, "CorporateDeposits") - corporatePaid)],
                            "warning",
                            Message("Idiosyncratic run reduced corporate deposits",
                                    "CorporateDeposits", corporatePaid))
                 IN IF corporatePaid < corporateRequested
                    THEN createEvent(d, "error",
                                     Message("Unmet corporate withdrawal demand",
                                             "CorporateDeposits",
                                             corporateRequested - corporatePaid))
                    ELSE d
  IN createEvent(c2, "warning",
                 Message("Shock: idiosyncratic run multiplier", "RetailDeposits",
                         outflowRateMultiplier))

idiosyncraticRun(c, cfg, outflowRateMultiplier) ==
  LET c0 == [c EXCEPT !.lcrOutflowMultiplier = (@ * outflowRateMultiplier) \div PCT]
      hasRetail == hasLine(c.st, "RetailDeposits")
      hasCorporate == hasLine(c.st, "CorporateDeposits")
      runParams == cfg.shockParameters.idiosyncraticRun
      incremental == (Max(0, outflowRateMultiplier - PCT) * runParams.incrementalRate) \div PCT
      runOffRate == Min(runParams.maxRunOffRate, runParams.baseRunOffRate + incremental)
      retailRequested == IF hasRetail
                         THEN (balanceOf(c.st, "RetailDeposits") * runOffRate) \div BP ELSE 0
      corporateRequested == IF hasCorporate
                            THEN (balanceOf(c.st, "CorporateDeposits") * runOffRate) \div BP ELSE 0
      totalRequested == retailRequested + corporateRequested
      r == applyCashOutflowOrFail(c0, totalRequested)
      totalPaid == r.paid
      allocationBase == IF totalRequested > 0 THEN totalRequested ELSE 1
      rawRetailPaid == IF hasRetail THEN (totalPaid * retailRequested) \div allocationBase ELSE 0
      retailPaid == Min(totalPaid, Max(0, rawRetailPaid))
      corporatePaid == IF hasCorporate THEN Max(0, totalPaid - retailPaid) ELSE 0
      c1 == IF ~hasRetail THEN r.c
            ELSE LET d == createEvent(
                            [r.c EXCEPT !.st = setBalance(@, "RetailDeposits",
                                                 balanceOf(@, "RetailDeposits") - retailPaid)],
                            "warning",
                            Message("Idiosyncratic run reduced retail deposits", "RetailDeposits",
                                    retailPaid))
                 IN IF retailPaid < retailRequested
                    THEN createEvent(d, "error",
                                     Message("Unmet retail withdrawal demand", "RetailDeposits",
                                             retailRequested - retailPaid))
                    ELSE d
      c2 == IF ~hasCorporate THEN c1
            ELSE LET d == createEvent(
                            [c1 EXCEPT !.st = setBalance(@, "CorporateDeposits",
                                                balanceOf(@, "CorporateDeposits") - corporatePaid)],
                            "warning",
                            Message("Idiosyncratic run reduced corporate deposits",
                                    "CorporateDeposits", corporatePaid))
                 IN IF corporatePaid < corporateRequested
                    THEN createEvent(d, "error",
                                     Message("Unmet corporate withdrawal demand",
                                             "CorporateDeposits",
                                             corporateRequested - corporatePaid))
                    ELSE d
  IN createEvent(c2, "warning",
                 Message("Shock: idiosyncratic run multiplier", "RetailDeposits",
                         outflowRateMultiplier))

\* shockHandlers and the dispatcher's fallback.  The market of every state built by this
\* repository carries competitorCorporateDepositRate, so its `??` fallback is never taken.
dispatchShock(shock, c, cfg) ==
  CASE shock.type = "depositCompetition" ->
         LET st1 == [c.st EXCEPT !.market.competitorRetailDepositRate =
                                    @ + shock.retailRateIncrease]
             st2 == IF shock.corporateGiven
                    THEN [st1 EXCEPT !.market.competitorCorporateDepositRate =
                                        @ + shock.corporateRateIncrease]
                    ELSE st1
         IN createEvent([c EXCEPT !.st = st2], "info",
                        Message("Shock: deposit competition", "RetailDeposits",
                                shock.retailRateIncrease))
    [] shock.type = "marketSpreadShock" ->
         createEvent([c EXCEPT !.st.market.wholesaleFundingSpread = @ + shock.wholesaleSpreadBps,
                               !.st.market.seniorDebtSpread = @ + shock.wholesaleSpreadBps,
                               !.st.market.corporateLoanSpread = @ + shock.loanSpreadBps,
                               !.st.market.creditSpread = @ + shock.wholesaleSpreadBps,
                               !.st.market.giltRepoHaircut = @ + shock.repoHaircutIncreasePct],
                     "warning",
                     Message("Shock: market spread widen", "Gilts", shock.wholesaleSpreadBps))
    [] shock.type = "idiosyncraticRun" -> idiosyncraticRun(c, cfg, shock.outflowRateMultiplier)
    [] shock.type = "macroDownturn" ->
         createEvent([c EXCEPT !.pdMultiplier = (@ * shock.pdMultiplier) \div PCT,
                               !.lgdMultiplier = (@ * shock.lgdMultiplier) \div PCT],
                     "warning", Message("Shock: macro downturn", "Mortgages", shock.pdMultiplier))
    [] shock.type = "counterpartyDefault" ->
         applyCounterpartyDefault(c, shock.productType, shock.lossAmount)
    [] OTHER -> createEvent(c, "warning", Message("No handler for shock type", "CashReserves", 0))

RECURSIVE applyShocksFrom(_, _, _, _)
applyShocksFrom(c, cfg, shocks, i) ==
  IF i > Len(shocks) THEN c
  ELSE applyShocksFrom(dispatchShock(shocks[i], c, cfg), cfg, shocks, i + 1)

\* The multipliers start at 1 and the one-off losses empty; the shocks compound them.
applyShocks(c, cfg, shocks) ==
  applyShocksFrom([c EXCEPT !.pdMultiplier = PCT, !.lgdMultiplier = PCT,
                            !.lcrOutflowMultiplier = PCT, !.extraLosses = NoLosses,
                            !.extraLossKeys = {}],
                  cfg, shocks, 1)

\* ---------------------------------------------------------------- behaviour
growthFactorOf(g, lo, hi, dtMonths) == Max(0, BP + clamp(g, lo, hi) * dtMonths)

depositBehaviourOne(c, cfg, dtMonths, p) ==
  LET item == findItem(c.st, p)
      competitor == IF PRODUCT_META[p].depositSegment = "corporate"
                    THEN c.st.market.competitorCorporateDepositRate
                    ELSE c.st.market.competitorRetailDepositRate
      rel == item.interestRate - competitor
      elasticity == cfg.productParameters[p].volumeElasticityToRate
      growthFactor == growthFactorOf(cfg.behaviour.depositBaselineGrowthMonthly + elasticity * rel,
                                     cfg.behaviour.minDepositGrowthPerStep,
                                     cfg.global.maxDepositGrowthPerStep, dtMonths)
      before == item.balance
      desiredBalance == (before * growthFactor) \div BP
      desiredDelta == desiredBalance - before
      grown == adjustCashOrFail([c EXCEPT !.st = setBalance(@, p, desiredBalance)], desiredDelta)
      r == applyCashOutflowOrFail(c, -desiredDelta)
      paidC == [r.c EXCEPT !.st = setBalance(@, p, before - r.paid)]
      shrunk == IF r.paid < -desiredDelta
                THEN createEvent(paidC, "error",
                                 Message("Unmet deposit withdrawal demand", p,
                                         (-desiredDelta) - r.paid))
                ELSE paidC
  IN createEvent(IF desiredDelta >= 0 THEN grown ELSE shrunk, "info",
                 Message("Behaviour: deposit growth", p, growthFactor - BP))

RECURSIVE applyDepositBehaviourFrom(_, _, _, _)
applyDepositBehaviourFrom(c, cfg, dtMonths, i) ==
  IF i > Len(c.st.balanceSheet) \/ c.thrown THEN c
  ELSE LET p == c.st.balanceSheet[i].productType IN
       applyDepositBehaviourFrom(
         IF PRODUCT_META[p].affectsBehaviouralDepositFlow /\ PRODUCT_META[p].isCustomerDeposit
         THEN depositBehaviourOne(c, cfg, dtMonths, p) ELSE c,
         cfg, dtMonths, i + 1)

applyDepositBehaviour(c, cfg, dtMonths) == applyDepositBehaviourFrom(c, cfg, dtMonths, 1)

\* applyLoanBehaviour for a growing book once the origination `up` has been booked.
loanGrown(c, p, requested, up) ==
  IF up.thrown THEN [c EXCEPT !.thrown = TRUE]
  ELSE IF up.funded < requested
       THEN createEvent([c EXCEPT !.st = up.st], "warning",
                        Message("Insufficient cash to originate", p, up.funded))
  ELSE [c EXCEPT !.st = up.st]

\* applyLoanBehaviour for a shrinking book once the prepayment `down` has been booked.
loanShrunk(c, down) ==
  IF down.thrown THEN [c EXCEPT !.thrown = TRUE] ELSE [c EXCEPT !.st = down.st]

loanGrowthEvent(c1, p, growthFactor) ==
  IF c1.thrown THEN c1
  ELSE createEvent(c1, "info", Message("Behaviour: loan growth", p, growthFactor - BP))

loanBehaviourOne(c, cfg, dtMonths, p) ==
  LET item == findItem(c.st, p)
      benchmark == IF PRODUCT_META[p].loanBenchmark = "mortgage"
                   THEN c.st.market.competitorMortgageRate
                   ELSE c.st.market.riskFreeLong + c.st.market.corporateLoanSpread
      rel == item.interestRate - benchmark
      params == cfg.productParameters[p]
      growthFactor == growthFactorOf(cfg.behaviour.loanBaselineGrowthMonthly
                                       + params.volumeElasticityToRate * rel,
                                     cfg.behaviour.minLoanGrowthPerStep,
                                     cfg.global.maxLoanGrowthPerStep, dtMonths)
      before == item.balance
      delta == (before * growthFactor) \div BP - before
      availableCash == Max(0, IF hasLine(c.st, "CashReserves")
                              THEN balanceOf(c.st, "CashReserves") ELSE 0)
      requested == Min(delta, availableCash)
  IN loanGrowthEvent(
       IF delta > 0
       THEN loanGrown(c, p, requested,
                      upsertOriginationCohort(c.st, cfg, p, c.st.time.step, requested,
                                              item.interestRate, params.baseDefaultRate,
                                              params.lossGivenDefault))
       ELSE IF delta < 0 THEN loanShrunk(c, applyExtraPrepayment(c.st, p, Abs(delta)))
       ELSE c,
       p, growthFactor)

RECURSIVE applyLoanBehaviourFrom(_, _, _, _)
applyLoanBehaviourFrom(c, cfg, dtMonths, i) ==
  IF i > Len(c.st.balanceSheet) \/ c.thrown THEN c
  ELSE LET p == c.st.balanceSheet[i].productType IN
       applyLoanBehaviourFrom(
         IF PRODUCT_META[p].affectsBehaviouralLoanFlow /\ PRODUCT_META[p].isLoan
         THEN loanBehaviourOne(c, cfg, dtMonths, p) ELSE c,
         cfg, dtMonths, i + 1)

applyLoanBehaviour(c, cfg, dtMonths) == applyLoanBehaviourFrom(c, cfg, dtMonths, 1)

\* ------------------------------------------------- P&L, losses, capital close
isAsset(i) == i.side = "Asset"
isLiability(i) == i.side = "Liability"
isNonLoanAsset(i) == i.side = "Asset" /\ ~isLoanProduct(i.productType)
isLoanItem(i) == isLoanProduct(i.productType)
anyItem(i) == TRUE
balanceField(i) == i.balance
interestOn(i) == i.balance * i.interestRate

\* Simple interest for the period; dtYears = dtMonths / MONTHS_IN_YEAR.
accruePnL(st, dtMonths) ==
  [interestIncome |-> (SumSeq([idx \in 1..Len(st.balanceSheet) |->
                               IF isNonLoanAsset(st.balanceSheet[idx])
                               THEN interestOn(st.balanceSheet[idx]) ELSE 0]) * dtMonths)
                        \div (MONTHS_IN_YEAR * BP),
   interestExpense |-> (SumSeq([idx \in 1..Len(st.balanceSheet) |->
                                IF isLiability(st.balanceSheet[idx])
                                THEN interestOn(st.balanceSheet[idx]) ELSE 0]) * dtMonths)
                        \div (MONTHS_IN_YEAR * BP)]

\* The amount recognised on a non-loan product named by a one-off loss.
nonLoanRecognized(st, extraLosses, p) ==
  IF hasLine(st, p) THEN Min(balanceOf(st, p), extraLosses[p]) ELSE 0

RECURSIVE writeDownNonLoan(_, _, _)
writeDownNonLoan(st, recognized, k) ==
  IF k > Len(LossOrder) THEN st
  ELSE LET p == LossOrder[k] IN
       writeDownNonLoan(IF recognized.keys[p] /\ hasLine(st, p)
                        THEN setBalance(st, p, Max(0, balanceOf(st, p) - recognized.amount[p]))
                        ELSE st,
                        recognized, k + 1)

\* The loss recognition as it would be without the skip of loan products: a one-off loss
\* on a loan product is taken off its line a second time.
recogniseLossesOnEveryProduct(st, extraLosses, extraLossKeys, recognizedLoanLossesInput) ==
  LET nonLoanKeys == [p \in ProductType |-> p \in extraLossKeys]
      raw == [p \in ProductType |->
                IF nonLoanKeys[p] THEN nonLoanRecognized(st, extraLosses, p) ELSE 0]
      recognizedNonLoanLosses == [p \in ProductType |-> IF raw[p] > 0 THEN raw[p] ELSE 0]
      creditLosses ==
        SumSeq([k \in 1..Len(LossOrder) |->
                  recognizedLoanLossesInput[LossOrder[k]] + raw[LossOrder[k]]])
  IN [st |-> writeDownNonLoan(st, [keys |-> nonLoanKeys, amount |-> recognizedNonLoanLosses], 1),
      recognizedLoanLosses |-> recognizedLoanLossesInput,
      recognizedNonLoanLosses |-> recognizedNonLoanLosses,
      creditLosses |-> creditLosses]

recogniseLosses(st, extraLosses, extraLossKeys, recognizedLoanLossesInput) ==
  LET nonLoanKeys == [p \in ProductType |-> p \in extraLossKeys /\ ~isLoanProduct(p)]
      raw == [p \in ProductType |->
                IF nonLoanKeys[p] THEN nonLoanRecognized(st, extraLosses, p) ELSE 0]
      recognizedNonLoanLosses == [p \in ProductType |-> IF raw[p] > 0 THEN raw[p] ELSE 0]
      creditLosses ==
        SumSeq([k \in 1..Len(LossOrder) |->
                  recognizedLoanLossesInput[LossOrder[k]] + raw[LossOrder[k]]])
  IN [st |-> writeDownNonLoan(st, [keys |-> nonLoanKeys, amount |-> recognizedNonLoanLosses], 1),
      recognizedLoanLosses |-> recognizedLoanLossesInput,
      recognizedNonLoanLosses |-> recognizedNonLoanLosses,
      creditLosses |-> creditLosses]

\* The capital close as it would be if the whole operating cash delta were applied to
\* cash, loan interest included.
closeCapitalPayingLoanInterestAgain(c, cfg, dtMonths, accruals, losses, loanInterestIncome) ==
  LET loanBookBalance == SumSeq([idx \in 1..Len(c.st.balanceSheet) |->
                                 IF isLoanItem(c.st.balanceSheet[idx])
                                 THEN balanceField(c.st.balanceSheet[idx]) ELSE 0])
      totalAssetBalance == SumSeq([idx \in 1..Len(c.st.balanceSheet) |->
                                   IF isAsset(c.st.balanceSheet[idx])
                                   THEN balanceField(c.st.balanceSheet[idx]) ELSE 0])
      feeIncome == (cfg.behaviour.loanFeeRateMonthly * dtMonths * loanBookBalance) \div BP
      operatingExpenses ==
        (cfg.global.operatingCostRatio * totalAssetBalance * dtMonths) \div (MONTHS_IN_YEAR * BP)
          + cfg.global.fixedOperatingCostPerMonth * dtMonths
      totalInterestIncome == accruals.interestIncome + loanInterestIncome
      netInterestIncome == totalInterestIncome - accruals.interestExpense
      preTaxProfit == netInterestIncome + feeIncome - losses.creditLosses - operatingExpenses
      tax == IF preTaxProfit > 0 THEN (preTaxProfit * cfg.global.taxRate) \div BP ELSE 0
      netIncome == preTaxProfit - tax
      operatingCashDelta ==
        totalInterestIncome - accruals.interestExpense + feeIncome - operatingExpenses - tax
      operatingCashDeltaApplied == operatingCashDelta
      st1 == [c.st EXCEPT
                !.incomeStatement =
                   [interestIncome |-> totalInterestIncome,
                    interestExpense |-> accruals.interestExpense,
                    netInterestIncome |-> netInterestIncome, feeIncome |-> feeIncome,
                    creditLosses |-> losses.creditLosses,
                    operatingExpenses |-> operatingExpenses, preTaxProfit |-> preTaxProfit,
                    tax |-> tax, netIncome |-> netIncome],
                !.capital.cet1 = @ + netIncome]
  IN [c |-> adjustCashOrFail([c EXCEPT !.st = st1], operatingCashDeltaApplied),
      netIncome |-> netIncome, operatingCashDelta |-> operatingCashDelta,
      operatingCashDeltaApplied |-> operatingCashDeltaApplied]

closeCapital(c, cfg, dtMonths, accruals, losses, loanInterestIncome) ==
  LET loanBookBalance == SumSeq([idx \in 1..Len(c.st.balanceSheet) |->
                                 IF isLoanItem(c.st.balanceSheet[idx])
                                 THEN balanceField(c.st.balanceSheet[idx]) ELSE 0])
      totalAssetBalance == SumSeq([idx \in 1..Len(c.st.balanceSheet) |->
                                   IF isAsset(c.st.balanceSheet[idx])
                                   THEN balanceField(c.st.balanceSheet[idx]) ELSE 0])
      feeIncome == (cfg.behaviour.loanFeeRateMonthly * dtMonths * loanBookBalance) \div BP
      operatingExpenses ==
        (cfg.global.operatingCostRatio * totalAssetBalance * dtMonths) \div (MONTHS_IN_YEAR * BP)
          + cfg.global.fixedOperatingCostPerMonth * dtMonths
      totalInterestIncome == accruals.interestIncome + loanInterestIncome
      netInterestIncome == totalInterestIncome - accruals.interestExpense
      preTaxProfit == netInterestIncome + feeIncome - losses.creditLosses - operatingExpenses
      tax == IF preTaxProfit > 0 THEN (preTaxProfit * cfg.global.taxRate) \div BP ELSE 0
      netIncome == preTaxProfit - tax
      operatingCashDelta ==
        totalInterestIncome - accruals.interestExpense + feeIncome - operatingExpenses - tax
      operatingCashDeltaApplied == operatingCashDelta - loanInterestIncome
      st1 == [c.st EXCEPT
                !.incomeStatement =
                   [interestIncome |-> totalInterestIncome,
                    interestExpense |-> accruals.interestExpense,
                    netInterestIncome |-> netInterestIncome, feeIncome |-> feeIncome,
                    creditLosses |-> losses.creditLosses,
                    operatingExpenses |-> operatingExpenses, preTaxProfit |-> preTaxProfit,
                    tax |-> tax, netIncome |-> netIncome],
                !.capital.cet1 = @ + netIncome]
  IN [c |-> adjustCashOrFail([c EXCEPT !.st = st1], operatingCashDeltaApplied),
      netIncome |-> netIncome, operatingCashDelta |-> operatingCashDelta,
      operatingCashDeltaApplied |-> operatingCashDeltaApplied]

\* ------------------------------------------------------------------ metrics
\* A ratio is a finite number of basis points or +Infinity (a zero denominator); with finite
\* balances the code's quotients are never NaN or -Infinity.
Ratio(num, den) ==
  IF den > 0 THEN [kind |-> "finite", value |-> (num * BP) \div den]
  ELSE [kind |-> "Infinity", value |-> 0]

ratioBelow(r, limit) == r.kind = "finite" /\ r.value < limit

ratioInvalid(r) == r.kind \in {"NaN", "-Infinity"}

hqlaOf(i) ==
  (Max(0, i.balance - i.encumberedAmount)
     * HQLA_FACTORS[liquidityTags[i.productType].hqlaLevel]) \div BP

computeHqla(items) == SumSeq([idx \in 1..Len(items) |->
                              IF isAsset(items[idx])
                              THEN hqlaOf(items[idx]) ELSE 0])

computeLcr(items, hqla, lcrOutflowMultiplier) ==
  LET hasOut(i) == liquidityTags[i.productType].lcrOutflowRate >= 0
      hasIn(i) == liquidityTags[i.productType].lcrInflowRate >= 0
      outflowOf(i) == LET base == (i.balance * liquidityTags[i.productType].lcrOutflowRate) \div BP
                IN IF i.productType \in {"RetailDeposits", "CorporateDeposits"}
                   THEN (base * lcrOutflowMultiplier) \div PCT ELSE base
      inflowOf(i) == (i.balance * liquidityTags[i.productType].lcrInflowRate) \div BP
      outflows == SumSeq([idx \in 1..Len(items) |->
                          IF hasOut(items[idx])
                          THEN outflowOf(items[idx]) ELSE 0])
      inflows == SumSeq([idx \in 1..Len(items) |->
                         IF hasIn(items[idx])
                         THEN inflowOf(items[idx]) ELSE 0])
      inflowsCapped == Min(inflows, (75 * outflows) \div PCT)
      netOutflows == Max(0, outflows - inflowsCapped)
  IN Ratio(hqla, netOutflows)

computeNsfr(items, cet1, at1) ==
  LET hasAsf(i) == liquidityTags[i.productType].nsfrAsfFactor >= 0
      hasRsf(i) == liquidityTags[i.productType].nsfrRsfFactor >= 0
      asfOf(i) == (i.balance * liquidityTags[i.productType].nsfrAsfFactor) \div BP
      rsfOf(i) == (i.balance * liquidityTags[i.productType].nsfrRsfFactor) \div BP
      asf == cet1 + at1 + SumSeq([idx \in 1..Len(items) |->
                                  IF hasAsf(items[idx])
                                  THEN asfOf(items[idx]) ELSE 0])
      rsf == SumSeq([idx \in 1..Len(items) |-> IF hasRsf(items[idx]) THEN rsfOf(items[idx]) ELSE 0])
  IN [asf |-> asf, rsf |-> rsf, nsfr |-> Ratio(asf, rsf)]

calculateRiskMetrics(st, cfg, lcrOutflowMultiplier) ==
  LET rw(i) == i.balance * cfg.productParameters[i.productType].riskWeight
      totalAssets == SumSeq([idx \in 1..Len(st.balanceSheet) |->
                             IF isAsset(st.balanceSheet[idx])
                             THEN balanceField(st.balanceSheet[idx]) ELSE 0])
      rwa == SumSeq([idx \in 1..Len(st.balanceSheet) |->
                     IF isAsset(st.balanceSheet[idx])
                     THEN rw(st.balanceSheet[idx]) ELSE 0]) \div PCT
      hqla == computeHqla(st.balanceSheet)
      n == computeNsfr(st.balanceSheet, st.capital.cet1, st.capital.at1)
  IN [rwa |-> rwa, leverageExposure |-> totalAssets,
      cet1Ratio |-> Ratio(st.capital.cet1, rwa),
      leverageRatio |-> Ratio(st.capital.cet1 + st.capital.at1, totalAssets),
      hqla |-> hqla, lcr |-> computeLcr(st.balanceSheet, hqla, lcrOutflowMultiplier),
      lcrOutflowMultiplier |-> lcrOutflowMultiplier, asf |-> n.asf, rsf |-> n.rsf,
      nsfr |-> n.nsfr]

ratioAtOrBelow(r, limit) == r.kind = "finite" /\ r.value <= limit

\* The compliance test as it would be if a ratio equal to its minimum were a breach.
evaluateComplianceInclusive(metrics, limits) ==
  [cet1Breached |-> ratioAtOrBelow(metrics.cet1Ratio, limits.minCet1Ratio),
   leverageBreached |-> ratioAtOrBelow(metrics.leverageRatio, limits.minLeverageRatio),
   lcrBreached |-> ratioAtOrBelow(metrics.lcr, limits.minLcr),
   nsfrBreached |-> ratioAtOrBelow(metrics.nsfr, limits.minNsfr)]

evaluateCompliance(metrics, limits) ==
  [cet1Breached |-> ratioBelow(metrics.cet1Ratio, limits.minCet1Ratio),
   leverageBreached |-> ratioBelow(metrics.leverageRatio, limits.minLeverageRatio),
   lcrBreached |-> ratioBelow(metrics.lcr, limits.minLcr),
   nsfrBreached |-> ratioBelow(metrics.nsfr, limits.minNsfr)]

\* The assignment of the failure flag as it would be from the compliance flags alone.
recordComplianceAlone(c, metrics, compliance) ==
  LET failed == \/ compliance.cet1Breached
                \/ compliance.leverageBreached
                \/ compliance.lcrBreached
                \/ compliance.nsfrBreached
      c1 == [c EXCEPT !.st.riskMetrics = metrics, !.st.compliance = compliance,
                      !.st.status.hasFailed = failed]
  IN IF failed
     THEN createEvent(c1, "error", Message("Regulatory breach: your bank has failed!",
                                           "CashReserves", 0))
     ELSE c1

\* computeMetrics once the metrics and the compliance flags are computed: they are stored,
\* hasFailed is ORed with the flags, and a failed bank is announced.
recordCompliance(c, metrics, compliance) ==
  LET failed == \/ c.st.status.hasFailed
                \/ compliance.cet1Breached
                \/ compliance.leverageBreached
                \/ compliance.lcrBreached
                \/ compliance.nsfrBreached
      c1 == [c EXCEPT !.st.riskMetrics = metrics, !.st.compliance = compliance,
                      !.st.status.hasFailed = failed]
  IN IF failed
     THEN createEvent(c1, "error", Message("Regulatory breach: your bank has failed!",
                                           "CashReserves", 0))
     ELSE c1

recordMetrics(c, cfg, metrics) ==
  recordCompliance(c, metrics, evaluateCompliance(metrics, cfg.riskLimits))

computeMetrics(c, cfg, lcrOutflowMultiplier) ==
  recordMetrics(c, cfg, calculateRiskMetrics(c.st, cfg, lcrOutflowMultiplier))

\* --------------------------------------------------------------- statements
ProductOrder ==
  LossOrder \o <<"RetailDeposits", "CorporateDeposits", "WholesaleFundingST",
                 "WholesaleFundingLT", "RepurchaseAgreements">>

computeBalanceFlows(inputState, st, losses) ==
  LET present(p) == hasLine(st, p) \/ hasLine(inputState, p)
      side(p) == IF hasLine(st, p) THEN findItem(st, p).side ELSE findItem(inputState, p).side
      delta(p) == balanceOf(st, p) - balanceOf(inputState, p)
      nonCashLoss(p) == losses.recognizedLoanLosses[p] + losses.recognizedNonLoanLosses[p]
      assetFlow(p) == -(delta(p) + nonCashLoss(p))
      flowsWhere(cond(_), flow(_)) ==
        SumSeq([k \in 1..Len(ProductOrder) |->
                  IF present(ProductOrder[k]) /\ cond(ProductOrder[k])
                  THEN flow(ProductOrder[k]) ELSE 0])
      operatingAsset(p) == side(p) = "Asset" /\ p \notin {"CashReserves", "Gilts"}
      investingAsset(p) == side(p) = "Asset" /\ p = "Gilts"
      operatingLiability(p) ==
        side(p) # "Asset" /\ p \in {"RetailDeposits", "CorporateDeposits", "WholesaleFundingST",
                                     "RepurchaseAgreements"}
      financingLiability(p) ==
        side(p) # "Asset" /\ p \notin {"RetailDeposits", "CorporateDeposits",
                                        "WholesaleFundingST", "RepurchaseAgreements"}
  IN [operatingBalanceFlow |-> flowsWhere(operatingAsset, assetFlow)
                                 + flowsWhere(operatingLiability, delta),
      investingBalanceFlow |-> flowsWhere(investingAsset, assetFlow),
      financingLiabilityFlow |-> flowsWhere(financingLiability, delta)]

\* Advances the clock (the date counts periods of 30 days) and stores the cash-flow statement.
buildStatements(inputState, st, cfg, cashStart, capitalClose, losses) ==
  LET time == [step |-> st.time.step + 1, stepLengthMonths |-> st.time.stepLengthMonths,
               date |-> st.time.date + st.time.stepLengthMonths]
      cashEnd == balanceOf(st, "CashReserves")
      netChange == cashEnd - cashStart
      flows == computeBalanceFlows(inputState, st, losses)
      investingCashFlow == flows.investingBalanceFlow
      capitalDelta == st.capital.cet1 + st.capital.at1
                        - (inputState.capital.cet1 + inputState.capital.at1)
      externalCapitalFlow == capitalDelta - capitalClose.netIncome
      financingCashFlow == flows.financingLiabilityFlow + externalCapitalFlow
      operatingRaw == capitalClose.operatingCashDelta + flows.operatingBalanceFlow
      mismatchRaw == operatingRaw + investingCashFlow + financingCashFlow - netChange
      absorbed == Abs(mismatchRaw) <= cfg.tolerances.cashFlowRoundingTolerance
      cashFlowStatement ==
        [cashStart |-> cashStart, cashEnd |-> cashEnd, netChange |-> netChange,
         operatingCashFlow |-> IF absorbed THEN operatingRaw - mismatchRaw ELSE operatingRaw,
         investingCashFlow |-> investingCashFlow, financingCashFlow |-> financingCashFlow]
  IN [st |-> [st EXCEPT !.time = time, !.cashFlowStatement = cashFlowStatement],
      cashFlowStatement |-> cashFlowStatement,
      cfMismatch |-> IF absorbed THEN 0 ELSE mismatchRaw]

\* --------------------------------------------------------------- invariants
identityDiff(st) ==
  SumSeq([idx \in 1..Len(st.balanceSheet) |->
          IF isAsset(st.balanceSheet[idx])
          THEN balanceField(st.balanceSheet[idx]) ELSE 0])
    - (SumSeq([idx \in 1..Len(st.balanceSheet) |->
               IF isLiability(st.balanceSheet[idx])
               THEN balanceField(st.balanceSheet[idx]) ELSE 0]) + st.capital.cet1 + st.capital.at1)

\* A balance below -1e-6 is, on the model's grid of hundredths, a balance below zero.
isNegativeBalance(i) == i.balance < 0

ratioNames == <<"cet1Ratio", "leverageRatio", "lcr", "nsfr">>

\* checkInvariants as it would be without the scan for negative balances.
checkInvariantsWithoutBalances(st) ==
  LET unbalanced == IF Abs(identityDiff(st)) > IDENTITY_TOLERANCE
                    THEN <<Message("Balance sheet not balanced", "CashReserves",
                                   identityDiff(st))>>
                    ELSE << >>
      badRatio(n) == ratioInvalid(st.riskMetrics[n])
      invalid == SelectSeq(ratioNames, badRatio)
      invalidMsgs == [k \in 1..Len(invalid) |-> Message("ratio is invalid", invalid[k], 0)]
  IN unbalanced \o invalidMsgs

\* The list of violation messages, in the order the code pushes them.
checkInvariants(st) ==
  LET unbalanced == IF Abs(identityDiff(st)) > IDENTITY_TOLERANCE
                    THEN <<Message("Balance sheet not balanced", "CashReserves",
                                   identityDiff(st))>>
                    ELSE << >>
      negatives == SelectSeq(st.balanceSheet, isNegativeBalance)
      negativeMsgs == [k \in 1..Len(negatives) |->
                         Message("Negative balance", negatives[k].productType,
                                 negatives[k].balance)]
      badRatio(n) == ratioInvalid(st.riskMetrics[n])
      invalid == SelectSeq(ratioNames, badRatio)
      invalidMsgs == [k \in 1..Len(invalid) |-> Message("ratio is invalid", invalid[k], 0)]
  IN unbalanced \o negativeMsgs \o invalidMsgs

RECURSIVE reportViolations(_, _, _)
reportViolations(c, msgs, k) ==
  IF k > Len(msgs) THEN c
  ELSE reportViolations(
         createEvent([c EXCEPT !.st.status.hasFailed = TRUE], "error",
                     [msgs[k] EXCEPT !.text = "Invariant violated: " \o @]),
         msgs, k + 1)

invariants(c, cfg, statements) ==
  LET c1 == reportViolations(c, checkInvariants(c.st), 1) IN
  IF Abs(statements.cfMismatch) > cfg.tolerances.cashFlowBreachThreshold
  THEN createEvent([c1 EXCEPT !.st.status.hasFailed = TRUE], "error",
                   Message("Cash flow statement mismatch", "CashReserves",
                           statements.cfMismatch))
  ELSE c1

\* ------------------------------------------------------------- market model
\* advanceUkMarketState on the basis-point grid.  The latent macro drivers (factors, regime,
\* GDP, inflation, term premium) are held at their long-run means, their random draws are
\* still consumed; the latent unemployment is in hundredths and keeps its mean reversion
\* and its noise; and the fitted gilt curve is read back at its 1y and 5y knots
\* with the 30y point taken at the 20y knot.  The generator is the code's xorshift on a
\* 16-bit word (shifts 7, 9, 8 for the code's 13, 17, 5 on 32 bits); normal() consumes two
\* uniforms and is quantised to -1, 0 or +1 standard deviations.
RECURSIVE bitXor(_, _, _)
bitXor(a, b, n) ==
  IF n = 0 THEN 0 ELSE (((a % 2) + (b % 2)) % 2) + 2 * bitXor(a \div 2, b \div 2, n - 1)

WORD == 256 * 256

nextUint(s0) ==
  LET s == IF s0 % WORD = 0 THEN 31221 ELSE s0 % WORD
      a == bitXor(s, (s * 128) % WORD, 16)
      b == bitXor(a, a \div 512, 16)
  IN bitXor(b, (b * 256) % WORD, 16)

RECURSIVE rngStates(_, _)
\* The n successive generator states that follow seed s.
rngStates(s, n) == IF n = 0 THEN << >> ELSE <<nextUint(s)>> \o rngStates(nextUint(s), n - 1)

\* The logistic function on a latent value in hundredths, in basis points: its tangent at
\* 0 (slope 1/4), saturating at 0 and 1.
sigmoid(x) == clamp(BP \div 2 + 25 * x, 0, BP)

meanRevert(current, target, speed) == current + (speed * (target - current)) \div PCT

\* Four factor normals and the regime uniform, then sixteen normals of two uniforms each.
UNIFORMS_PER_MONTH == 9 + 2 * 16

\* The month as it would be if the competitors' retail rate were capped at the highest
\* policy rate instead of the current one.
advanceOneMonthCappingAtPolicyMax(m) ==
  LET u == rngStates(m.macroModel.rngSeed, UNIFORMS_PER_MONTH)
      \* normal number j of the month, after the four factor draws and the regime uniform
      normal(j) == ((u[9 + 2 * j - 1] + u[9 + 2 * j]) % 3) - 1
      piStar == 200
      rNeutralReal == 125
      termPremium == 185
      neutralNominal == rNeutralReal + piStar
      policyTarget == rNeutralReal + piStar
      \* unemploymentLatentBar() = logit(0.26), about -1.05
      xNext == m.macroModel.unemploymentLatent
                 + (8 * (-105 - m.macroModel.unemploymentLatent)) \div PCT + normal(3) * 2
      unemployment == 200 + ((1200 - 200) * sigmoid(xNext)) \div BP
      bankRate == clamp((90 * m.baseRate + 10 * policyTarget) \div PCT + normal(4) * 7, 0, 1200)
      y1 == bankRate + (30 * (neutralNominal - bankRate)) \div PCT + normal(6) * 6
      y5 == neutralNominal + (35 * (bankRate - neutralNominal)) \div PCT
              + (27 * termPremium) \div PCT + normal(7) * 8
      y20 == neutralNominal + termPremium + normal(8) * 10
      creditSpread == clamp(110 + (88 * (m.creditSpread - 110)) \div PCT + normal(9) * 15, 0, 500)
      wholesale == clamp(meanRevert(m.wholesaleFundingSpread, 30 + (70 * creditSpread) \div PCT, 70)
                           + normal(10) * 3, 0, 800)
      senior == clamp(meanRevert(m.seniorDebtSpread, 40 + (80 * creditSpread) \div PCT, 70)
                        + normal(11) * 3, 0, 1000)
      corpLoan == clamp(meanRevert(m.corporateLoanSpread, 170 + creditSpread, 70)
                          + normal(12) * 3, 0, 1200)
      mortgage == clamp(meanRevert(m.mortgageSpread, 120 + (40 * creditSpread) \div PCT, 70)
                          + normal(13) * 3, 0, 1200)
      giltHaircut == clamp(meanRevert(m.giltRepoHaircut, 200 + (20 * creditSpread) \div PCT, 25),
                           50, 2000)
      depositTarget == Max(0, bankRate - 250)
      retail == clamp(meanRevert(m.competitorRetailDepositRate, depositTarget, 25)
                        + normal(14) * 3, 0, 1200)
      corporate == clamp(meanRevert(m.competitorCorporateDepositRate, depositTarget + 50, 50)
                           + normal(15) * 3, 0, bankRate)
      competitorMortgage == clamp(meanRevert(m.competitorMortgageRate, y5 + mortgage - 50, 20)
                                    + normal(16) * 3, 0, 2000)
  IN [m EXCEPT !.unemploymentRate = unemployment,
               !.macroModel.unemploymentLatent = xNext,
               !.baseRate = bankRate,
               !.giltCurve = [y1 |-> y1, y5 |-> y5, y30 |-> y20],
               !.riskFreeShort = y1, !.riskFreeLong = y20,
               !.creditSpread = creditSpread,
               !.wholesaleFundingSpread = wholesale, !.seniorDebtSpread = senior,
               !.corporateLoanSpread = corpLoan, !.mortgageSpread = mortgage,
               !.giltRepoHaircut = giltHaircut,
               !.competitorRetailDepositRate = retail,
               !.competitorCorporateDepositRate = corporate,
               !.competitorMortgageRate = competitorMortgage,
               !.macroModel.rngSeed = u[UNIFORMS_PER_MONTH]]

advanceOneMonth(m) ==
  LET u == rngStates(m.macroModel.rngSeed, UNIFORMS_PER_MONTH)
      \* normal number j of the month, after the four factor draws and the regime uniform
      normal(j) == ((u[9 + 2 * j - 1] + u[9 + 2 * j]) % 3) - 1
      piStar == 200
      rNeutralReal == 125
      termPremium == 185
      neutralNominal == rNeutralReal + piStar
      policyTarget == rNeutralReal + piStar
      \* unemploymentLatentBar() = logit(0.26), about -1.05
      xNext == m.macroModel.unemploymentLatent
                 + (8 * (-105 - m.macroModel.unemploymentLatent)) \div PCT + normal(3) * 2
      unemployment == 200 + ((1200 - 200) * sigmoid(xNext)) \div BP
      bankRate == clamp((90 * m.baseRate + 10 * policyTarget) \div PCT + normal(4) * 7, 0, 1200)
      y1 == bankRate + (30 * (neutralNominal - bankRate)) \div PCT + normal(6) * 6
      y5 == neutralNominal + (35 * (bankRate - neutralNominal)) \div PCT
              + (27 * termPremium) \div PCT + normal(7) * 8
      y20 == neutralNominal + termPremium + normal(8) * 10
      creditSpread == clamp(110 + (88 * (m.creditSpread - 110)) \div PCT + normal(9) * 15, 0, 500)
      wholesale == clamp(meanRevert(m.wholesaleFundingSpread, 30 + (70 * creditSpread) \div PCT, 70)
                           + normal(10) * 3, 0, 800)
      senior == clamp(meanRevert(m.seniorDebtSpread, 40 + (80 * creditSpread) \div PCT, 70)
                        + normal(11) * 3, 0, 1000)
      corpLoan == clamp(meanRevert(m.corporateLoanSpread, 170 + creditSpread, 70)
                          + normal(12) * 3, 0, 1200)
      mortgage == clamp(meanRevert(m.mortgageSpread, 120 + (40 * creditSpread) \div PCT, 70)
                          + normal(13) * 3, 0, 1200)
      giltHaircut == clamp(meanRevert(m.giltRepoHaircut, 200 + (20 * creditSpread) \div PCT, 25),
                           50, 2000)
      depositTarget == Max(0, bankRate - 250)
      retail == clamp(meanRevert(m.competitorRetailDepositRate, depositTarget, 25)
                        + normal(14) * 3, 0, bankRate)
      corporate == clamp(meanRevert(m.competitorCorporateDepositRate, depositTarget + 50, 50)
                           + normal(15) * 3, 0, bankRate)
      competitorMortgage == clamp(meanRevert(m.competitorMortgageRate, y5 + mortgage - 50, 20)
                                    + normal(16) * 3, 0, 2000)
  IN [m EXCEPT !.unemploymentRate = unemployment,
               !.macroModel.unemploymentLatent = xNext,
               !.baseRate = bankRate,
               !.giltCurve = [y1 |-> y1, y5 |-> y5, y30 |-> y20],
               !.riskFreeShort = y1, !.riskFreeLong = y20,
               !.creditSpread = creditSpread,
               !.wholesaleFundingSpread = wholesale, !.seniorDebtSpread = senior,
               !.corporateLoanSpread = corpLoan, !.mortgageSpread = mortgage,
               !.giltRepoHaircut = giltHaircut,
               !.competitorRetailDepositRate = retail,
               !.competitorCorporateDepositRate = corporate,
               !.competitorMortgageRate = competitorMortgage,
               !.macroModel.rngSeed = u[UNIFORMS_PER_MONTH]]

RECURSIVE advanceMonths(_, _)
advanceMonths(m, months) ==
  IF months = 0 THEN m ELSE advanceMonths(advanceOneMonth(m), months - 1)

advanceUkMarketState(market, dtMonths) == advanceMonths(market, Max(1, dtMonths))

\* ------------------------------------------------------- Nelson-Siegel fit
\* The loadings at lambda = 0.7 for the maturities of 1, 5 and 20 years, in thousandths.
nsLoad1(lambda, mYears) == IF mYears = 1 THEN 719 ELSE IF mYears = 5 THEN 277 ELSE 71

nsLoad2(lambda, mYears) ==
  nsLoad1(lambda, mYears) - (IF mYears = 1 THEN 496 ELSE IF mYears = 5 THEN 30 ELSE 0)

det3(r1, r2, r3) ==
  r1[1] * (r2[2] * r3[3] - r2[3] * r3[2])
    - r1[2] * (r2[1] * r3[3] - r2[3] * r3[1])
    + r1[3] * (r2[1] * r3[2] - r2[2] * r3[1])

\* solve3x3 of [1, L1(m), L2(m)] x = y by exact arithmetic in place of the elimination
\* with partial pivoting: a pivot below eps is a zero determinant.  Yields are in basis
\* points, the factors are rounded down to the basis point.
solve3x3(a, c, y) ==
  LET D == det3(<<1, a[1], c[1]>>, <<1, a[2], c[2]>>, <<1, a[3], c[3]>>) IN
  IF D = 0 THEN [ok |-> FALSE, level |-> 0, slope |-> 0, curvature |-> 0]
  ELSE [ok |-> TRUE,
        level |-> det3(<<y[1], a[1], c[1]>>, <<y[2], a[2], c[2]>>, <<y[3], a[3], c[3]>>) \div D,
        slope |-> (1000 * det3(<<1, y[1], c[1]>>, <<1, y[2], c[2]>>, <<1, y[3], c[3]>>)) \div D,
        curvature |->
          (1000 * det3(<<1, a[1], y[1]>>, <<1, a[2], y[2]>>, <<1, a[3], y[3]>>)) \div D]

\* yFallback: the mean of the finite yields, flat.
yFallback(points) ==
  LET ys == SelectSeq(points, LAMBDA p : p.finite) IN
  [level |-> IF Len(ys) = 0 THEN 0
             ELSE SumSeq([k \in 1..Len(ys) |-> ys[k].y]) \div Len(ys),
   slope |-> 0, curvature |-> 0]

factorsOf(f) == [level |-> f.level, slope |-> f.slope, curvature |-> f.curvature]

\* The fit as it would be if a singular system without fallback always gave the flat level.
fitNelsonSiegelFlatWhenSingular(lambda, points, fallback) ==
  LET fallbackSafe == fallback.given /\ fallback.finite
      last == IF fallbackSafe THEN factorsOf(fallback) ELSE yFallback(points)
      solved == solve3x3([k \in 1..3 |-> nsLoad1(lambda, points[k].mYears)],
                         [k \in 1..3 |-> nsLoad2(lambda, points[k].mYears)],
                         [k \in 1..3 |-> points[k].y])
  IN IF lambda <= 0 THEN last
     ELSE IF \E k \in 1..3 : ~points[k].finite THEN last
     ELSE IF solved.ok THEN factorsOf(solved)
     ELSE last

\* fitNelsonSiegelFrom3Points for three points; a point or a fallback that is not finite
\* carries finite = FALSE.
fitNelsonSiegelFrom3Points(lambda, points, fallback) ==
  LET fallbackSafe == fallback.given /\ fallback.finite
      last == IF fallbackSafe THEN factorsOf(fallback) ELSE yFallback(points)
      solved == solve3x3([k \in 1..3 |-> nsLoad1(lambda, points[k].mYears)],
                         [k \in 1..3 |-> nsLoad2(lambda, points[k].mYears)],
                         [k \in 1..3 |-> points[k].y])
      idxLong == IF points[1].mYears >= points[2].mYears
                 THEN (IF points[1].mYears >= points[3].mYears THEN 1 ELSE 3)
                 ELSE (IF points[2].mYears >= points[3].mYears THEN 2 ELSE 3)
      other == SelectSeq(<<1, 2, 3>>, LAMBDA k : k # idxLong)
      pA == points[other[1]]
      pB == points[other[2]]
      level == points[idxLong].y
      a11 == nsLoad1(lambda, pA.mYears)
      a12 == nsLoad2(lambda, pA.mYears)
      a21 == nsLoad1(lambda, pB.mYears)
      a22 == nsLoad2(lambda, pB.mYears)
      d == a11 * a22 - a12 * a21
      rhs1 == pA.y - level
      rhs2 == pB.y - level
  IN IF lambda <= 0 THEN last
     ELSE IF \E k \in 1..3 : ~points[k].finite THEN last
     ELSE IF solved.ok THEN factorsOf(solved)
     ELSE IF fallbackSafe THEN factorsOf(fallback)
     ELSE IF d # 0
          THEN [level |-> level,
                slope |-> (1000 * (rhs1 * a22 - a12 * rhs2)) \div d,
                curvature |-> (1000 * (a11 * rhs2 - rhs1 * a21)) \div d]
     ELSE yFallback(points)

\* -------------------------------------------------------------------- clone
cloneBalanceSheet(items) ==
  [k \in 1..Len(items) |->
     [side |-> items[k].side, productType |-> items[k].productType,
      balance |-> items[k].balance, interestRate |-> items[k].interestRate,
      encumberedAmount |-> items[k].encumberedAmount]]

cloneLoanCohorts(raw) ==
  [k \in 1..Len(raw) |->
     [productType |-> raw[k].productType,
      cohorts |-> [n \in 1..Len(raw[k].cohorts) |-> raw[k].cohorts[n]]]]

\* The copy and the set of components whose record or list the copy still shares with the
\* original: every component is rebuilt, so nothing is shared.
\* A one-level copy ({ ...state }): the item list and the cohort map stay shared with the input.
cloneBankStateShallow(state) == [st |-> state, shared |-> {"balanceSheet", "loanCohorts"}]

cloneBankState(state) ==
  [st |-> [time |-> state.time,
           balanceSheet |-> cloneBalanceSheet(state.balanceSheet),
           capital |-> state.capital,
           incomeStatement |-> state.incomeStatement,
           cashFlowStatement |-> state.cashFlowStatement,
           riskMetrics |-> state.riskMetrics,
           compliance |-> state.compliance,
           market |-> state.market,
           behaviour |-> state.behaviour,
           status |-> state.status,
           loanCohorts |-> cloneLoanCohorts(state.loanCohorts)],
   shared |-> {}]

\* What the caller's object holds after the call: a component shared with the working copy
\* shows the copy's mutations, every other component is untouched.
callerView(inputState, working, shared) ==
  [f \in DOMAIN inputState |-> IF f \in shared THEN working[f] ELSE inputState[f]]

\* --------------------------------------------------------------------- step
\* The stages of step are chained through operator arguments, each stage receiving what the
\* code holds in its local constants at that point.
stepOutcome(inputState, cl, thrown, c, cfMismatch) ==
  [thrown |-> thrown,
   nextState |-> IF thrown THEN inputState ELSE c.st,
   events |-> c.events,
   eventSequence |-> c.eventSequence,
   cfMismatch |-> cfMismatch,
   inputAfter |-> callerView(inputState, c.st, cl.shared),
   shared |-> cl.shared]

\* advanceUkMarketState(state.market, dtMonths) and the return.
stepFromInvariants(input, cl, c9, dtMonths, statements) ==
  stepOutcome(input.state, cl, FALSE,
              [c9 EXCEPT !.st.market = advanceUkMarketState(@, dtMonths)],
              statements.cfMismatch)

\* invariants(state, config, events, statements)
stepFromStatements(input, cl, c7, dtMonths, statements) ==
  stepFromInvariants(input, cl,
                     invariants([c7 EXCEPT !.st = statements.st], input.config, statements),
                     dtMonths, statements)

\* buildStatements(inputState, state, config, cashStart, capitalClose, losses)
stepFromMetrics(input, cl, c7, dtMonths, capitalClose, losses) ==
  stepFromStatements(input, cl, c7, dtMonths,
                     buildStatements(input.state, c7.st, input.config,
                                     balanceOf(input.state, "CashReserves"),
                                     capitalClose, losses))

\* computeMetrics(state, config, shockEffects.lcrOutflowMultiplier, events)
stepFromCapitalClose(input, cl, dtMonths, capitalClose, losses) ==
  stepFromMetrics(input, cl,
                  computeMetrics(capitalClose.c, input.config,
                                 capitalClose.c.lcrOutflowMultiplier),
                  dtMonths, capitalClose, losses)

\* closeCapital(state, config, dtMonths, dtYears, accruals, losses, loanInterestIncome, events)
stepFromLosses(input, cl, c5, dtMonths, cohortStep, accruals, losses) ==
  stepFromCapitalClose(input, cl, dtMonths,
                       closeCapital([c5 EXCEPT !.st = losses.st], input.config, dtMonths,
                                    accruals, losses, cohortStep.loanInterestIncome),
                       losses)

\* accruePnL and recogniseLosses, unless an exception has ended the call.
stepFromCohorts(input, cl, c4, dtMonths, cohortStep) ==
  IF c4.thrown THEN stepOutcome(input.state, cl, TRUE, c4, 0)
  ELSE IF cohortStep.thrown
       THEN stepOutcome(input.state, cl, TRUE, [c4 EXCEPT !.st = cohortStep.st], 0)
  ELSE stepFromLosses(input, cl, [c4 EXCEPT !.st = cohortStep.st], dtMonths, cohortStep,
                      accruePnL(cohortStep.st, dtMonths),
                      recogniseLosses(cohortStep.st, c4.extraLosses, c4.extraLossKeys,
                                      cohortStep.recognizedLoanLosses))

\* stepLoanCohorts with the shock effects.
stepFromBehaviour(input, cl, c4, dtMonths) ==
  stepFromCohorts(input, cl, c4, dtMonths,
                  stepLoanCohorts(c4.st, input.config, dtMonths, c4.pdMultiplier,
                                  c4.lgdMultiplier, c4.extraLosses))

\* The opening of step as it would be if deposits flowed before the player's actions.
stepUntilCohortsDepositsFirst(input, cl, seq0, now0) ==
  applyLoanBehaviour(
    applyActions(
      applyDepositBehaviour(
        applyShocks([st |-> syncLoanBalancesFromCohorts(cl.st), events |-> << >>,
                     eventSequence |-> seq0, now |-> now0, thrown |-> FALSE,
                     pdMultiplier |-> PCT, lgdMultiplier |-> PCT,
                     lcrOutflowMultiplier |-> PCT, extraLosses |-> NoLosses,
                     extraLossKeys |-> {}],
                    input.config, input.shocks),
        input.config, cl.st.time.stepLengthMonths),
      input.config, input.actions, 1),
    input.config, cl.st.time.stepLengthMonths)

\* The sync, the shocks, the actions and the two behaviours on the working copy: the
\* running step as it enters the cohort step.
stepUntilCohorts(input, cl, seq0, now0) ==
  applyLoanBehaviour(
    applyDepositBehaviour(
      applyActions(
        applyShocks([st |-> syncLoanBalancesFromCohorts(cl.st), events |-> << >>,
                     eventSequence |-> seq0, now |-> now0, thrown |-> FALSE,
                     pdMultiplier |-> PCT, lgdMultiplier |-> PCT,
                     lcrOutflowMultiplier |-> PCT, extraLosses |-> NoLosses,
                     extraLossKeys |-> {}],
                    input.config, input.shocks),
        input.config, input.actions, 1),
      input.config, cl.st.time.stepLengthMonths),
    input.config, cl.st.time.stepLengthMonths)

stepOnClone(input, cl, seq0, now0) ==
  stepFromBehaviour(input, cl, stepUntilCohorts(input, cl, seq0, now0),
                    cl.st.time.stepLengthMonths)

\* One call of step.  seq0 is the module-level eventSequence at entry and now0 the reading of
\* Date.now() during the call.  thrown = TRUE stands for an exception reaching the caller,
\* in which case no next state is returned.
step(input, seq0, now0) == stepOnClone(input, cloneBankState(input.state), seq0, now0)

\* ------------------------------------------------------------ opening state
Cohort(productType, cohortId, outstanding, rate, termMonths, ageMonths) ==
  [productType |-> productType, cohortId |-> cohortId, originalPrincipal |-> outstanding,
   outstandingPrincipal |-> outstanding, annualInterestRate |-> rate,
   termMonths |-> termMonths, ageMonths |-> ageMonths,
   annualPd |-> productParameters[productType].baseDefaultRate,
   lgd |-> productParameters[productType].lossGivenDefault]

makeItem(side, productType, balance, interestRate) ==
  [side |-> side, productType |-> productType, balance |-> balance,
   interestRate |-> interestRate, encumberedAmount |-> 0]

\* initialState with the shipped proportions: the loan lines are seeded with seasoned
\* cohorts that add up to them, metrics and compliance are computed from the seeded sheet.
seedState ==
  [time |-> [step |-> 0, stepLengthMonths |-> 1, date |-> 0],
   balanceSheet |->
     <<makeItem("Asset", "CashReserves", 1200, 450), makeItem("Asset", "Gilts", 2400, 400),
       makeItem("Asset", "Mortgages", 10000, 550), makeItem("Asset", "CorporateLoans", 6400, 650),
       makeItem("Asset", "ReverseRepo", 0, 400),
       makeItem("Liability", "RetailDeposits", 10400, 200),
       makeItem("Liability", "CorporateDeposits", 3600, 300),
       makeItem("Liability", "WholesaleFundingST", 1200, 550),
       makeItem("Liability", "WholesaleFundingLT", 2800, 600),
       makeItem("Liability", "RepurchaseAgreements", 0, 500)>>,
   capital |-> [cet1 |-> 1600, at1 |-> 400],
   incomeStatement |->
     [interestIncome |-> 0, interestExpense |-> 0, netInterestIncome |-> 0, feeIncome |-> 0,
      creditLosses |-> 0, operatingExpenses |-> 0, preTaxProfit |-> 0, tax |-> 0,
      netIncome |-> 0],
   cashFlowStatement |->
     [cashStart |-> 0, cashEnd |-> 0, netChange |-> 0, operatingCashFlow |-> 0,
      investingCashFlow |-> 0, financingCashFlow |-> 0],
   market |->
     [baseRate |-> 400, riskFreeShort |-> 378, riskFreeLong |-> 397, mortgageSpread |-> 150,
      corporateLoanSpread |-> 250, wholesaleFundingSpread |-> 100, seniorDebtSpread |-> 100,
      giltRepoHaircut |-> 200, competitorRetailDepositRate |-> 150,
      competitorMortgageRate |-> 500, competitorCorporateDepositRate |-> 200,
      creditSpread |-> 110, giltCurve |-> [y1 |-> 378, y5 |-> 397, y30 |-> 521],
      unemploymentRate |-> 510,
      macroModel |-> [unemploymentLatent |-> -80, rngSeed |-> 123456789 % WORD]],
   behaviour |-> [depositFranchiseStrength |-> 70, reputation |-> 80, ratingNotchOffset |-> 0],
   status |-> [isInResolution |-> FALSE, hasFailed |-> FALSE],
   loanCohorts |->
     <<[productType |-> "Mortgages",
        cohorts |-> <<Cohort("Mortgages", -2, 4000, 550, DefaultTermMortgages, 2),
                      Cohort("Mortgages", -1, 6000, 550, DefaultTermMortgages, 1)>>],
       [productType |-> "CorporateLoans",
        cohorts |-> <<Cohort("CorporateLoans", -1, 6400, 650, DefaultTermCorporate, 1)>>]>>]

initialState ==
  LET metrics == calculateRiskMetrics(seedState, config, PCT) IN
  [time |-> seedState.time, balanceSheet |-> seedState.balanceSheet,
   capital |-> seedState.capital, incomeStatement |-> seedState.incomeStatement,
   cashFlowStatement |-> seedState.cashFlowStatement, riskMetrics |-> metrics,
   compliance |-> evaluateCompliance(metrics, config.riskLimits), market |-> seedState.market,
   behaviour |-> seedState.behaviour, status |-> seedState.status,
   loanCohorts |-> seedState.loanCohorts]

\* ------------------------------------------------------------------- inputs
AdjustRate(p, r) == [type |-> "adjustRate", productType |-> p, newRate |-> r]
IssueEquity(a) == [type |-> "issueEquity", amount |-> a]
IssueDebt(p, a) ==
  [type |-> "issueDebt", productType |-> p, amount |-> a, rateGiven |-> FALSE, rate |-> 0]
IssueDebtAt(p, a, r) ==
  [type |-> "issueDebt", productType |-> p, amount |-> a, rateGiven |-> TRUE, rate |-> r]
BuySellAsset(p, d) == [type |-> "buySellAsset", productType |-> p, amountDelta |-> d]
RepoBorrow(p, a, h) ==
  [type |-> "enterRepo", direction |-> "borrow", collateralProduct |-> p, amount |-> a,
   haircutGiven |-> TRUE, haircut |-> h, rateGiven |-> FALSE, rate |-> 0]
RepoLend(a, r) ==
  [type |-> "enterRepo", direction |-> "lend", collateralProduct |-> "Gilts", amount |-> a,
   haircutGiven |-> FALSE, haircut |-> 0, rateGiven |-> TRUE, rate |-> r]
DepositCompetition(r, c) ==
  [type |-> "depositCompetition", retailRateIncrease |-> r, corporateGiven |-> TRUE,
   corporateRateIncrease |-> c]
MarketSpreadShock(w, l, h) ==
  [type |-> "marketSpreadShock", wholesaleSpreadBps |-> w, loanSpreadBps |-> l,
   repoHaircutIncreasePct |-> h]
IdiosyncraticRun(m) == [type |-> "idiosyncraticRun", outflowRateMultiplier |-> m]
MacroDownturn(pd, lgd) == [type |-> "macroDownturn", pdMultiplier |-> pd, lgdMultiplier |-> lgd]
CounterpartyDefault(p, l) == [type |-> "counterpartyDefault", productType |-> p, lossAmount |-> l]

Play(actions, shocks) == [actions |-> actions, shocks |-> shocks]

\* The player moves and market events tried at each step.
Inputs ==
  {Play(<< >>, << >>),
   Play(<<AdjustRate("Mortgages", 450), AdjustRate("RetailDeposits", 100)>>, << >>),
   Play(<<BuySellAsset("Mortgages", 300), BuySellAsset("Mortgages", 200),
          BuySellAsset("CorporateLoans", -1000)>>,
        <<CounterpartyDefault("Mortgages", 500)>>),
   Play(<<RepoBorrow("Gilts", 2000, 200), BuySellAsset("Gilts", -1500)>>, << >>),
   Play(<<RepoBorrow("Gilts", 2000, 0), BuySellAsset("Gilts", 500)>>,
        <<CounterpartyDefault("Gilts", 1000)>>),
   Play(<<BuySellAsset("Mortgages", -100000), BuySellAsset("CorporateLoans", -100000),
          IssueDebtAt("WholesaleFundingST", 20000, 5000), RepoLend(100000, 0)>>, << >>),
   Play(<<IssueDebt("WholesaleFundingLT", -5000)>>, << >>),
   Play(<<RepoLend(-500, 400)>>, << >>),
   Play(<< >>, <<IdiosyncraticRun(150), MacroDownturn(200, 150)>>),
   Play(<<IssueEquity(500), IssueDebt("WholesaleFundingST", 1000)>>,
        <<DepositCompetition(50, 50), MarketSpreadShock(50, 50, 100)>>),
   Play(<<BuySellAsset("Mortgages", 100), AdjustRate("Mortgages", -5000),
          BuySellAsset("Mortgages", 500)>>, << >>),
   Play(<< >>, <<CounterpartyDefault("CashReserves", 300)>>)}

\* ------------------------------------------------------------ state machine
\* state .. shared describe one simulator and its last call of step; eventSequence is the
\* counter of the engine module, which every simulator of the process shares; other is the
\* state of a second simulator of the same process; probe records one call of a single
\* engine operation.
VARIABLES state, events, aborted, eventSequence, now, calls, lastInput, inputAfter, shared,
          replay, other, probe

vars == <<state, events, aborted, eventSequence, now, calls, lastInput, inputAfter, shared,
          replay, other, probe>>

NoProbe == [op |-> "none"]

NoReplay == [done |-> FALSE, thrown |-> FALSE, nextState |-> initialState, events |-> << >>]

Init ==
  /\ state = initialState
  /\ events = << >>
  /\ aborted = FALSE
  /\ eventSequence = 0
  /\ now = 0
  /\ calls = 0
  /\ lastInput = [state |-> initialState, config |-> config, actions |-> << >>,
                  shocks |-> << >>]
  /\ inputAfter = initialState
  /\ shared = {}
  /\ replay = NoReplay
  /\ other = initialState
  /\ probe = NoProbe

\* The caller invokes step on the current state and adopts the next state it returns.
Call(play, out) ==
  /\ events' = out.events
  /\ aborted' = out.thrown
  /\ eventSequence' = out.eventSequence
  /\ calls' = calls + 1
  /\ lastInput' = [state |-> state, config |-> config, actions |-> play.actions,
                   shocks |-> play.shocks]
  /\ inputAfter' = out.inputAfter
  /\ shared' = out.shared
  /\ replay' = NoReplay
  /\ UNCHANGED <<now, other, probe>>

Returns(plays) ==
  /\ calls < MaxSteps
  /\ \E play \in plays :
       \E out \in {step([state |-> state, config |-> config, actions |-> play.actions,
                         shocks |-> play.shocks], eventSequence, now)} :
         /\ ~out.thrown
         /\ state' = out.nextState
         /\ Call(play, out)

\* The exception reaches the caller, which keeps the state it had.
Aborts(plays) ==
  /\ calls < MaxSteps
  /\ \E play \in plays :
       \E out \in {step([state |-> state, config |-> config, actions |-> play.actions,
                         shocks |-> play.shocks], eventSequence, now)} :
         /\ out.thrown
         /\ state' = state
         /\ Call(play, out)

StepReturns == Returns(Inputs)

StepAborts == Aborts(Inputs)

Next == StepReturns \/ StepAborts

Spec == Init /\ [][Next]_vars


\* ------------------------------------------------- calling step a second time
\* The caller repeats its last call with the very same input object; the module-level
\* eventSequence is wherever the earlier calls left it and the wall clock may have moved on.
ReplayInputs ==
  { Play(<< >>, << >>),
    Play(<<AdjustRate("Mortgages", 450), AdjustRate("RetailDeposits", 100)>>, << >>),
    Play(<<BuySellAsset("Mortgages", 300), BuySellAsset("Mortgages", 200)>>, << >>),
    Play(<<IssueEquity(500)>>, <<DepositCompetition(50, 50)>>),
    Play(<< >>, <<CounterpartyDefault("Mortgages", 500)>>),
    Play(<<BuySellAsset("Mortgages", 100), AdjustRate("Mortgages", -5000),
           BuySellAsset("Mortgages", 500)>>, << >>) }

StepReturnsOnce == Returns(ReplayInputs)

StepAbortsOnce == Aborts(ReplayInputs)

Replay ==
  /\ calls >= 1
  /\ ~replay.done
  /\ \E out \in {step(lastInput, eventSequence, now)} :
       /\ replay' = [done |-> TRUE, thrown |-> out.thrown, nextState |-> out.nextState,
                     events |-> out.events]
       /\ eventSequence' = out.eventSequence
  /\ UNCHANGED <<state, events, aborted, now, calls, lastInput, inputAfter, shared, other,
                 probe>>

\* Date.now() moves on between two calls.
Tick ==
  /\ now < MaxNow
  /\ now' = now + 1
  /\ UNCHANGED <<state, events, aborted, eventSequence, calls, lastInput, inputAfter, shared,
                 replay, other, probe>>

NextReplay == StepReturnsOnce \/ StepAbortsOnce \/ Replay \/ Tick

SpecReplay == Init /\ [][NextReplay]_vars

\* ------------------------------------------------ two simulators in one process
\* A second simulator owns its own state and config object and calls the same engine
\* module; the module-level eventSequence is the only thing the two have in common.
OtherInputs ==
  { Play(<< >>, << >>),
    Play(<<IssueEquity(500)>>, <<DepositCompetition(50, 50)>>) }

OtherSteps ==
  /\ other.time.step < MaxOtherSteps
  /\ \E play \in OtherInputs :
       \E out \in {step([state |-> other, config |-> config, actions |-> play.actions,
                         shocks |-> play.shocks], eventSequence, now)} :
         /\ other' = IF out.thrown THEN other ELSE out.nextState
         /\ eventSequence' = out.eventSequence
  /\ UNCHANGED <<state, events, aborted, now, calls, lastInput, inputAfter, shared, replay,
                 probe>>

NextTwo == StepReturnsOnce \/ StepAbortsOnce \/ OtherSteps

SpecTwo == Init /\ [][NextTwo]_vars


\* ------------------------------------------------- single engine operations
\* The exported operations of the engine are also called one at a time (as the unit tests
\* do), on states built from the opening state.  Each action below makes one such call
\* and records its arguments and its result in probe.
\* A balance sheet without the item of a product, where it has one.
withoutLine(items, productType) ==
  SelectSeq(items, LAMBDA i : i.productType # productType)

\* A state whose balance sheet has no CashReserves item.
withoutCash(st) == [st EXCEPT !.balanceSheet = withoutLine(@, "CashReserves")]

\* The opening state with the mortgage book replaced by one cohort and the corporate book
\* empty, the loan lines equal to their cohort sums.
bookOf(cohort) ==
  syncLoanBalancesFromCohorts(
    [initialState EXCEPT !.loanCohorts =
       <<[productType |-> "Mortgages", cohorts |-> <<cohort>>],
         [productType |-> "CorporateLoans", cohorts |-> << >>]>>])

OriginateStates == {initialState, withoutCash(initialState)}

ProbeOriginate ==
  /\ probe = NoProbe
  /\ \E st \in OriginateStates, productType \in {"Mortgages", "CorporateLoans", "Gilts"},
        principal \in {-100, 0, 100, 5000} :
       probe' = [op |-> "originate", st |-> st, productType |-> productType,
                 principal |-> principal,
                 out |-> upsertOriginationCohort(
                           st, config, productType, st.time.step, principal, 500,
                           config.productParameters[productType].baseDefaultRate,
                           config.productParameters[productType].lossGivenDefault)]
  /\ UNCHANGED <<state, events, aborted, eventSequence, now, calls, lastInput, inputAfter,
                 shared, replay, other>>

\* The single cohorts stepped: principal, annual rate, term, age and annual default
\* probability vary; ages at and beyond the term are included.
ProbeCohorts ==
  {[Cohort("Mortgages", 0, principal, rate, termMonths, ageMonths)
      EXCEPT !.annualPd = annualPd] :
     principal \in {1200, 10000}, rate \in {0, 600}, termMonths \in 1..MaxProbeTerm,
     ageMonths \in 0..(MaxProbeTerm + 1), annualPd \in {0, 300}}

ProbeCohortStep ==
  /\ probe = NoProbe
  /\ \E cohort \in ProbeCohorts :
       probe' = [op |-> "cohortStep", st |-> bookOf(cohort), cohort |-> cohort,
                 out |-> stepLoanCohorts(bookOf(cohort), config, 1, PCT, PCT, NoLosses)]
  /\ UNCHANGED <<state, events, aborted, eventSequence, now, calls, lastInput, inputAfter,
                 shared, replay, other>>

\* The input of one call of step on the opening state.
StepInput(actions, shocks) ==
  [state |-> initialState, config |-> config, actions |-> actions, shocks |-> shocks]

\* One-off losses tried against a book that would stand at `total` without them: none, a
\* part, all but 0.01, all, and more than all.
LossesTried(total) == {0, 500, total - 1, total, total + 5000}

\* step on the opening state up to and including closeCapital, with what each stage
\* handed to the next (the sequence of calls of the test 'does not double-count loan
\* interest in cash vs P&L', after the shocks, actions and behaviours of a whole step).
ProbeClose ==
  /\ probe = NoProbe
  /\ \E play \in Inputs :
       \E c4 \in {stepUntilCohorts(StepInput(play.actions, play.shocks),
                                   cloneBankState(initialState), eventSequence, now)} :
         /\ ~c4.thrown
         /\ \E cohortStep \in {stepLoanCohorts(c4.st, config, 1, c4.pdMultiplier,
                                                c4.lgdMultiplier, c4.extraLosses)} :
              /\ ~cohortStep.thrown
              /\ \E accruals \in {accruePnL(cohortStep.st, 1)},
                    losses \in {recogniseLosses(cohortStep.st, c4.extraLosses,
                                                c4.extraLossKeys,
                                                cohortStep.recognizedLoanLosses)} :
                   probe' = [op |-> "close", play |-> play, entering |-> c4.st,
                             cohortStep |-> cohortStep, accruals |-> accruals,
                             losses |-> losses,
                             close |-> closeCapital([c4 EXCEPT !.st = losses.st], config, 1,
                                                    accruals, losses,
                                                    cohortStep.loanInterestIncome)]
  /\ UNCHANGED <<state, events, aborted, eventSequence, now, calls, lastInput, inputAfter,
                 shared, replay, other>>

\* The opening state with part of the gilts already pledged, with or without a
\* Repurchase Agreements line.
RepoStates ==
  {[initialState EXCEPT
      !.balanceSheet = IF withLine THEN pledged ELSE withoutLine(pledged, "RepurchaseAgreements")] :
     withLine \in BOOLEAN,
     pledged \in {[initialState.balanceSheet EXCEPT
                     ![findIndex(initialState.balanceSheet, "Gilts")].encumberedAmount = e] :
                    e \in {0, 1000, 2400}}}

\* The running step of an action applied to st, before any event.
Running(st) ==
  [st |-> st, events |-> << >>, eventSequence |-> eventSequence, now |-> now,
   thrown |-> FALSE, pdMultiplier |-> PCT, lgdMultiplier |-> PCT,
   lcrOutflowMultiplier |-> PCT, extraLosses |-> NoLosses, extraLossKeys |-> {}]

ProbeRepoBorrow ==
  /\ probe = NoProbe
  /\ \E st \in RepoStates, collateralProduct \in {"Gilts", "CashReserves"},
        amount \in {500, 2000, 100000}, haircut \in {0, 200, 5000} :
       probe' = [op |-> "repoBorrow", st |-> st, collateralProduct |-> collateralProduct,
                 amount |-> amount, haircut |-> haircut,
                 out |-> applyRepoBorrow(Running(st), collateralProduct, amount, TRUE,
                                         haircut, 500)]
  /\ UNCHANGED <<state, events, aborted, eventSequence, now, calls, lastInput, inputAfter,
                 shared, replay, other>>

\* The opening state with the cash balance set to a chosen amount and with both or only
\* one of the customer deposit lines.
RunStates ==
  {[setBalance(initialState, "CashReserves", cash) EXCEPT
      !.balanceSheet = IF absent = "none" THEN @ ELSE withoutLine(@, absent)] :
     cash \in {0, 100, 700, balanceOf(initialState, "CashReserves")},
     absent \in {"none", "RetailDeposits", "CorporateDeposits"}}

ProbeRun ==
  /\ probe = NoProbe
  /\ \E st \in RunStates, outflowRateMultiplier \in {100, 200, 600} :
       probe' = [op |-> "run", st |-> st, outflowRateMultiplier |-> outflowRateMultiplier,
                 out |-> idiosyncraticRun(Running(st), config, outflowRateMultiplier)]
  /\ UNCHANGED <<state, events, aborted, eventSequence, now, calls, lastInput, inputAfter,
                 shared, replay, other>>

\* Retail deposit rates tried, from far below to far above the competitor's 1.5%.
RatesTried == {0, 50, 100, 150, 250, 350, 450}

\* What the two steps of a rate comparison share: nothing, a purchase of gilts with all the
\* cash, or a rise of the competitors' deposit rates.
RatePlays ==
  {Play(<< >>, << >>),
   Play(<<BuySellAsset("Gilts", balanceOf(initialState, "CashReserves"))>>, << >>),
   Play(<< >>, <<DepositCompetition(100, 100)>>)}

\* States whose sheet lacks lines that issueDebt and enterRepo create: the opening state
\* without its empty repo lines, and without its short-term funding, held as equity instead.
LineStates ==
  {initialState,
   [initialState EXCEPT
      !.balanceSheet = withoutLine(withoutLine(@, "ReverseRepo"), "RepurchaseAgreements")],
   [initialState EXCEPT
      !.balanceSheet = withoutLine(withoutLine(@, "WholesaleFundingST"), "RepurchaseAgreements"),
      !.capital.cet1 = @ + balanceOf(initialState, "WholesaleFundingST")]}

\* Plays that use lines twice in a step or not at all.
LinePlays ==
  {Play(<< >>, << >>),
   Play(<<IssueDebt("WholesaleFundingST", 1000), RepoBorrow("Gilts", 500, 0),
          RepoLend(300, 0)>>, << >>),
   Play(<<RepoBorrow("Gilts", 400, 0), IssueDebt("WholesaleFundingST", 200),
          RepoBorrow("Gilts", 300, 0), IssueDebt("WholesaleFundingST", 300)>>,
        <<IdiosyncraticRun(150)>>)}

\* Two steps in a row from a state of LineStates, the second from the state the first
\* returned.
LineTrials(st) ==
  {[kind |-> "lines", play |-> play, productType |-> "CashReserves", loss |-> 0, rate |-> 0,
    actions |-> play.actions, shocks |-> play.shocks, state |-> st] : play \in LinePlays}

\* The state a trial steps from.
startOf(trial) == IF trial.kind = "lines" THEN trial.state ELSE initialState

\* step is called twice on the opening state, the second input a variation of the first:
\* with and without a counterpartyDefault on a loan product (the comparison of the test
\* 'counterparty-default-loss'), or with two retail deposit rates set by adjustRate (the
\* comparison of the test 'retail-rate-advantage').  A trial is the input of one call.
FirstTrials ==
  {[kind |-> "default", play |-> Play(<<BuySellAsset(productType, bought)>>, before),
    productType |-> productType, loss |-> 0, rate |-> 0,
    actions |-> <<BuySellAsset(productType, bought)>>, shocks |-> before] :
     productType \in {"Mortgages", "CorporateLoans"},
     before \in {<< >>, <<MacroDownturn(200, 150)>>}, bought \in {0, 500}}
  \cup
  {[kind |-> "rates", play |-> play, productType |-> "RetailDeposits", loss |-> 0,
    rate |-> lowRate,
    actions |-> Append(play.actions, AdjustRate("RetailDeposits", lowRate)),
    shocks |-> play.shocks] :
     play \in RatePlays, lowRate \in RatesTried}
  \cup UNION {LineTrials(st) : st \in LineStates}

SecondTrials(first) ==
  IF first.trial.kind = "lines" THEN LineTrials(first.out.nextState)
  ELSE IF first.trial.kind = "default"
  THEN {[first.trial EXCEPT
           !.loss = loss,
           !.shocks = Append(@, CounterpartyDefault(first.trial.productType, loss))] :
          loss \in LossesTried(balanceOf(first.out.nextState, first.trial.productType))}
  ELSE {[first.trial EXCEPT
           !.rate = highRate,
           !.actions = Append(first.trial.play.actions,
                              AdjustRate("RetailDeposits", highRate))] :
          highRate \in {r \in RatesTried : r > first.trial.rate}}

\* What the probe holds after a call: the first call alone, or the two calls compared.
comparison(first, trial, out) ==
  IF first.op = "none" THEN [op |-> "first", trial |-> trial, out |-> out]
  ELSE IF trial.kind = "lines"
  THEN [op |-> "lines", start |-> first.trial.state, firstPlay |-> first.trial.play,
        mid |-> first.out, play |-> trial.play, out |-> out]
  ELSE IF trial.kind = "default"
  THEN [op |-> "default", productType |-> trial.productType, loss |-> trial.loss,
        base |-> first.out, out |-> out]
  ELSE [op |-> "rates", play |-> trial.play, lowRate |-> first.trial.rate,
        highRate |-> trial.rate,
        entering |-> applyShocks(Running(initialState), config, trial.play.shocks).st,
        low |-> first.out, high |-> out]

ProbeStep ==
  /\ probe.op \in {"none", "first"}
  /\ \E trial \in IF probe.op = "none" THEN FirstTrials ELSE SecondTrials(probe) :
       \E out \in {step([StepInput(trial.actions, trial.shocks) EXCEPT
                              !.state = startOf(trial)], eventSequence, now)} :
         probe' = comparison(probe, trial, out)
  /\ UNCHANGED <<state, events, aborted, eventSequence, now, calls, lastInput, inputAfter,
                 shared, replay, other>>

\* Markets as shocks and earlier months can leave them: the opening market with the
\* policy rate, the competitors' rates, the credit spread and the latent unemployment
\* moved inside and outside their ranges.
MarketsTried ==
  {[initialState.market EXCEPT
      !.baseRate = baseRate,
      !.competitorRetailDepositRate = deposit,
      !.competitorCorporateDepositRate = deposit + 50,
      !.competitorMortgageRate = mortgage,
      !.creditSpread = creditSpread,
      !.macroModel.unemploymentLatent = latent] :
     baseRate \in {0, 400, 5000}, deposit \in {-100, 150, 3000},
     mortgage \in {-100, 2500}, creditSpread \in {-50, 900}, latent \in {-2000, 2000}}

ProbeMarket ==
  /\ probe = NoProbe
  /\ \E market \in MarketsTried, dtMonths \in 0..MaxMarketMonths :
       probe' = [op |-> "market", market |-> market, dtMonths |-> dtMonths,
                 out |-> advanceUkMarketState(market, dtMonths)]
  /\ UNCHANGED <<state, events, aborted, eventSequence, now, calls, lastInput, inputAfter,
                 shared, replay, other>>

\* The cohort step on the opening state over 0 to MaxLossMonths months, with and without
\* a one-off loss on one loan product, everything else equal.
ProbeExtraLoss ==
  /\ probe = NoProbe
  /\ \E productType \in {"Mortgages", "CorporateLoans"}, loss \in {0, 500, 100000},
        dtMonths \in 0..MaxLossMonths :
       \E out \in {[withLoss \in BOOLEAN |->
                       stepLoanCohorts(initialState, config, dtMonths, PCT, PCT,
                                       IF withLoss THEN [NoLosses EXCEPT ![productType] = loss]
                                       ELSE NoLosses)]} :
         probe' = [op |-> "extraLoss", st |-> initialState, productType |-> productType,
                   loss |-> loss, dtMonths |-> dtMonths, base |-> out[FALSE],
                   out |-> out[TRUE]]
  /\ UNCHANGED <<state, events, aborted, eventSequence, now, calls, lastInput, inputAfter,
                 shared, replay, other>>

\* The fallbacks tried: none, the factors of the test, and factors that are not finite.
FallbacksTried ==
  {[given |-> FALSE, finite |-> FALSE, level |-> 0, slope |-> 0, curvature |-> 0],
   [given |-> TRUE, finite |-> TRUE, level |-> 500, slope |-> -100, curvature |-> 20],
   [given |-> TRUE, finite |-> FALSE, level |-> 500, slope |-> -100, curvature |-> 20]}

\* The fit at lambda = 0.7 through three points whose maturities are drawn from 1, 5 and
\* 20 years, coincident or not, with the yields of the test or of the opening curve.
ProbeFit ==
  /\ probe = NoProbe
  /\ \E m1 \in {1, 5, 20}, m2 \in {1, 5, 20}, m3 \in {1, 5, 20},
        y \in {<<300, 400, 500>>, <<378, 397, 511>>}, fallback \in FallbacksTried :
       \E points \in {<<[mYears |-> m1, y |-> y[1], finite |-> TRUE],
                         [mYears |-> m2, y |-> y[2], finite |-> TRUE],
                         [mYears |-> m3, y |-> y[3], finite |-> TRUE]>>} :
         probe' = [op |-> "fit", points |-> points, fallback |-> fallback,
                   out |-> fitNelsonSiegelFrom3Points(700, points, fallback)]
  /\ UNCHANGED <<state, events, aborted, eventSequence, now, calls, lastInput, inputAfter,
                 shared, replay, other>>

\* applyExtraPrepayment on the opening state: nothing, a part of the book, all but 0.01,
\* all, and more than all of it.
ProbePrepay ==
  /\ probe = NoProbe
  /\ \E productType \in {"Mortgages", "CorporateLoans", "Gilts"} :
       \E amount \in {-100, 0, 500} \cup
                     {sumLoanOutstanding(cohortsOf(initialState, productType)) + d :
                        d \in {-1, 0, 5000}} :
         probe' = [op |-> "prepay", st |-> initialState, productType |-> productType,
                   amount |-> amount,
                   out |-> applyExtraPrepayment(initialState, productType, amount)]
  /\ UNCHANGED <<state, events, aborted, eventSequence, now, calls, lastInput, inputAfter,
                 shared, replay, other>>

\* The built-in scenarios: the balances their initialStateOverride puts on items of the
\* base initial state (80e9, 200e9, 240e9 and 170e9 on the scale of the opening state).
scenarios ==
  <<[id |-> "wholesale-funding-reliance",
     items |-> <<[productType |-> "WholesaleFundingST", balance |-> 3200],
                 [productType |-> "RetailDeposits", balance |-> 8000]>>],
    [id |-> "corporate-credit-boom",
     items |-> <<[productType |-> "CorporateLoans", balance |-> 9600],
                 [productType |-> "Mortgages", balance |-> 6800]>>]>>

\* applyInitialOverride, first part: the overriding balances replace those of the base
\* items.
overrideItems(items, override) ==
  [k \in 1..Len(items) |->
     IF \E o \in 1..Len(override) : override[o].productType = items[k].productType
     THEN [items[k] EXCEPT !.balance =
             override[CHOOSE o \in 1..Len(override) :
                        /\ override[o].productType = items[k].productType
                        /\ \A j \in 1..(o - 1) :
                             override[j].productType # items[k].productType].balance]
     ELSE items[k]]

\* applyInitialOverride, the loop over the loan products: the book is emptied when its
\* line is not positive, and otherwise scaled to the line, the line then set to the sum of
\* the scaled cohorts.  The base books are not empty, so the seeding of a book from
\* nothing is never reached.
rescaleLoanBook(st, productType, sum, balance, scaled) ==
  IF ~hasLine(st, productType) THEN st
  ELSE IF balance <= 0 THEN setCohorts(st, productType, << >>)
  ELSE IF sum > 0
       THEN setBalance(setCohorts(st, productType, scaled), productType,
                       sumLoanOutstanding(scaled))
  ELSE st

\* cohorts.forEach: outstandingPrincipal and originalPrincipal times balance / sum.
scaleCohorts(cohorts, sum, balance) ==
  [k \in 1..Len(cohorts) |->
     [cohorts[k] EXCEPT !.outstandingPrincipal = IF sum > 0 THEN (@ * balance) \div sum ELSE @,
                        !.originalPrincipal = IF sum > 0 THEN (@ * balance) \div sum ELSE @]]

\* applyInitialOverride, last part: the metrics and the compliance flags of the state.
withRiskMetrics(st, cfg, metrics) ==
  [st EXCEPT !.riskMetrics = metrics,
             !.compliance = evaluateCompliance(metrics, cfg.riskLimits)]

applyInitialOverride(override, cfg) ==
  LET rescaled(st, productType) ==
        rescaleLoanBook(st, productType, sumLoanOutstanding(cohortsOf(st, productType)),
                        balanceOf(st, productType),
                        scaleCohorts(cohortsOf(st, productType),
                                     sumLoanOutstanding(cohortsOf(st, productType)),
                                     balanceOf(st, productType)))
      measured(st) == withRiskMetrics(st, cfg, calculateRiskMetrics(st, cfg, PCT))
  IN measured(rescaled(rescaled([initialState EXCEPT
                                   !.balanceSheet = overrideItems(@, override)],
                                "Mortgages"),
                       "CorporateLoans"))

getScenarioInitialState(scenarioId, cfg) ==
  IF \E k \in 1..Len(scenarios) : scenarios[k].id = scenarioId
  THEN applyInitialOverride(
         scenarios[CHOOSE k \in 1..Len(scenarios) : scenarios[k].id = scenarioId].items, cfg)
  ELSE applyInitialOverride(<< >>, cfg)

\* The starting state of each built-in scenario, of no scenario and of an unknown id.
ProbeScenario ==
  /\ probe = NoProbe
  /\ \E scenarioId \in {scenarios[k].id : k \in 1..Len(scenarios)} \cup {"none", "unknown"} :
       probe' = [op |-> "scenario", scenarioId |-> scenarioId,
                 out |-> getScenarioInitialState(scenarioId, config)]
  /\ UNCHANGED <<state, events, aborted, eventSequence, now, calls, lastInput, inputAfter,
                 shared, replay, other>>

NextOps ==
  \/ ProbeOriginate \/ ProbeCohortStep \/ ProbeClose \/ ProbeRepoBorrow \/ ProbeRun
  \/ ProbeStep \/ ProbeMarket \/ ProbeExtraLoss \/ ProbeFit \/ ProbePrepay
  \/ ProbeScenario

SpecOps == Init /\ [][NextOps]_vars

\* ------------------------------------------------------------------- claims
returned == calls >= 1 /\ ~aborted

loanLinesMatchCohorts(st) ==
  \A k \in 1..Len(st.balanceSheet) :
    isLoanProduct(st.balanceSheet[k].productType) =>
      st.balanceSheet[k].balance
        = sumLoanOutstanding(cohortsOf(st, st.balanceSheet[k].productType))

cashFlowGap(st) ==
  st.cashFlowStatement.operatingCashFlow + st.cashFlowStatement.investingCashFlow
    + st.cashFlowStatement.financingCashFlow - st.cashFlowStatement.netChange

hasErrorEvent(text) ==
  \E k \in 1..Len(events) : events[k].severity = "error" /\ events[k].message.text = text

hasErrorEventOn(text, productType) ==
  \E k \in 1..Len(events) :
    /\ events[k].severity = "error"
    /\ events[k].message.text = text
    /\ events[k].message.product = productType

\* C1: when step returns for an input state whose assets equal liabilities plus cet1 plus
\* at1 within 1 and whose loan lines equal their cohort sums, the next state satisfies the
\* same identity within 1, whatever the actions and shocks were.
C1_IdentityPreserved ==
  (/\ returned
   /\ Abs(identityDiff(lastInput.state)) <= IDENTITY_TOLERANCE
   /\ loanLinesMatchCohorts(lastInput.state))
    => Abs(identityDiff(state)) <= IDENTITY_TOLERANCE

\* C2: after every step that returns, each loan line's balance equals the sum of the
\* outstanding principal of its cohorts (zero when it has none).
C2_LoanLinesMatchCohorts == returned => loanLinesMatchCohorts(state)

\* The step originated, amortised and removed cohorts and the Mortgages line moved with them.
C2_Witness ==
  /\ returned
  /\ Len(cohortsOf(state, "Mortgages")) >= 2
  /\ cohortsOf(state, "CorporateLoans") # cohortsOf(lastInput.state, "CorporateLoans")
  /\ balanceOf(state, "Mortgages") # balanceOf(lastInput.state, "Mortgages")
  /\ balanceOf(state, "Mortgages") > 0

\* C3: a second invocation of step on the same input gives the same outcome: the same next
\* state and the same events, field for field (severity, message, id, timestamp).
C3_ReplayIdentical ==
  replay.done =>
    /\ replay.thrown = aborted
    /\ ~aborted => replay.nextState = state
    /\ replay.events = events

C5_HasFailedSticky ==
  (returned /\ lastInput.state.status.hasFailed) => state.status.hasFailed

\* A step from a failed state in which nothing else fails: no compliance flag, no invariant
\* violation, no cash-flow breach, no cash shortfall.
C5_Witness ==
  /\ returned
  /\ lastInput.state.status.hasFailed
  /\ state.status.hasFailed
  /\ ~state.compliance.cet1Breached /\ ~state.compliance.leverageBreached
  /\ ~state.compliance.lcrBreached /\ ~state.compliance.nsfrBreached
  /\ checkInvariants(state) = << >>
  /\ Abs(cashFlowGap(state)) <= config.tolerances.cashFlowBreachThreshold
  /\ \A k \in 1..Len(events) :
       events[k].severity = "error"
         => events[k].message.text = "Regulatory breach: your bank has failed!"

C7_CashFlowsTieOut ==
  returned =>
    /\ state.cashFlowStatement.cashStart + state.cashFlowStatement.netChange
         = state.cashFlowStatement.cashEnd
    /\ Abs(cashFlowGap(state)) <= config.tolerances.cashFlowBreachThreshold

\* C8: every cohort of a returned state has 0 <= ageMonths < termMonths <= min(maxTermMonths,
\* 420), 0 <= annualPd < 1 and 0 <= lgd <= 1.
C8_CohortsWellFormed ==
  returned =>
    \A i \in 1..Len(state.loanCohorts) :
      \A k \in 1..Len(state.loanCohorts[i].cohorts) :
        LET c == state.loanCohorts[i].cohorts[k] IN
        /\ 0 <= c.ageMonths
        /\ c.ageMonths < c.termMonths
        /\ c.termMonths <= Min(getMaxTermMonths(config, state.loanCohorts[i].productType),
                               MAX_TERM_MONTHS_CAP)
        /\ 0 <= c.annualPd /\ c.annualPd < BP
        /\ 0 <= c.lgd /\ c.lgd <= BP

\* A cohort the simulation originated has aged, and a seeded cohort reached its term and left.
C8_Witness ==
  /\ returned
  /\ \E k \in 1..Len(cohortsOf(state, "Mortgages")) :
       /\ cohortsOf(state, "Mortgages")[k].cohortId >= 0
       /\ cohortsOf(state, "Mortgages")[k].ageMonths >= 1
  /\ \A k \in 1..Len(cohortsOf(state, "CorporateLoans")) :
       cohortsOf(state, "CorporateLoans")[k].cohortId >= 0

\* C9: after every step that returns, no balance-sheet item has a negative balance.
C9_NoNegativeBalance ==
  returned => \A k \in 1..Len(state.balanceSheet) : ~isNegativeBalance(state.balanceSheet[k])

\* C10: in every reachable state each item's encumbered amount lies between 0 and its
\* balance.
C10_EncumbranceWithinBalance ==
  \A k \in 1..Len(state.balanceSheet) :
    /\ 0 <= state.balanceSheet[k].encumberedAmount
    /\ state.balanceSheet[k].encumberedAmount <= state.balanceSheet[k].balance

\* The four ratios with their configured minimum and their compliance flag.
ratioLimits ==
  <<[ratio |-> "cet1Ratio", limit |-> config.riskLimits.minCet1Ratio, flag |-> "cet1Breached"],
    [ratio |-> "leverageRatio", limit |-> config.riskLimits.minLeverageRatio,
     flag |-> "leverageBreached"],
    [ratio |-> "lcr", limit |-> config.riskLimits.minLcr, flag |-> "lcrBreached"],
    [ratio |-> "nsfr", limit |-> config.riskLimits.minNsfr, flag |-> "nsfrBreached"]>>

\* Metrics whose four ratios all have the value r.
metricsAllAt(r) == [cet1Ratio |-> r, leverageRatio |-> r, lcr |-> r, nsfr |-> r]

limitsAllAt(l) == [minCet1Ratio |-> l, minLeverageRatio |-> l, minLcr |-> l, minNsfr |-> l]

\* C11: in a returned state each compliance flag is TRUE exactly when its ratio, as computed
\* at the metrics stage, is strictly below the configured minimum; a TRUE flag comes with
\* hasFailed = TRUE and the error event "Regulatory breach: your bank has failed!"; a ratio
\* equal to its minimum or equal to +Infinity raises no flag.
C11_BreachFlagsAndFailure ==
  /\ returned =>
       \A k \in 1..Len(ratioLimits) :
         /\ state.compliance[ratioLimits[k].flag]
              <=> ratioBelow(state.riskMetrics[ratioLimits[k].ratio], ratioLimits[k].limit)
         /\ state.compliance[ratioLimits[k].flag]
              => (state.status.hasFailed
                  /\ hasErrorEvent("Regulatory breach: your bank has failed!"))
  /\ \A k \in 1..Len(ratioLimits) :
       \A r \in {Ratio(ratioLimits[k].limit, BP), Ratio(1, 0)} :
         ~evaluateCompliance(metricsAllAt(r),
                             limitsAllAt(ratioLimits[k].limit))[ratioLimits[k].flag]

\* A step from a bank that had not failed returns with one ratio below its minimum and
\* another one at or above it: the first is flagged, the second is not.
C11_Witness ==
  /\ returned
  /\ ~lastInput.state.status.hasFailed
  /\ state.status.hasFailed
  /\ hasErrorEvent("Regulatory breach: your bank has failed!")
  /\ \E k \in 1..Len(ratioLimits) :
       /\ ratioBelow(state.riskMetrics[ratioLimits[k].ratio], ratioLimits[k].limit)
       /\ state.compliance[ratioLimits[k].flag]
  /\ \E k \in 1..Len(ratioLimits) :
       /\ ~ratioBelow(state.riskMetrics[ratioLimits[k].ratio], ratioLimits[k].limit)
       /\ ~state.compliance[ratioLimits[k].flag]

\* C12: the first step of a simulator returns the state and the events it would return in a
\* process where no other simulator has ever stepped (a freshly loaded engine module), however
\* many steps the second simulator has taken before it.
C12_InstancesIndependent ==
  calls = 1 =>
    \E alone \in {step(lastInput, 0, now)} :
      /\ aborted = alone.thrown
      /\ ~aborted => state = alone.nextState
      /\ events = alone.events

\* C13: when the state entering the cohort step holds a cohort with positive outstanding
\* and ageMonths >= termMonths, the cohort step throws (and step, which does not catch,
\* returns no next state).
C13_OverAgeCohortAborts ==
  (/\ probe.op = "cohortStep"
   /\ probe.cohort.outstandingPrincipal > 0
   /\ probe.cohort.ageMonths >= probe.cohort.termMonths) => probe.out.thrown

\* C14: upsertOriginationCohort for a loan product and a positive principal on a state
\* without a CashReserves item throws the missing-cash-line error.
C14_OriginateWithoutCashFails ==
  (/\ probe.op = "originate"
   /\ isLoanProduct(probe.productType)
   /\ probe.principal > 0
   /\ ~hasLine(probe.st, "CashReserves")) => probe.out.thrown

\* What is left of a balance after n months of interest at annualRate / 12 and n payments
\* of pmt: zero (up to the rounding of each month) exactly for the level annuity payment
\* P*(r/12) / (1 - (1 + r/12)^(-n)), and for P/n when r = 0.
RECURSIVE annuityResidual(_, _, _, _)
annuityResidual(balance, annualRate, pmt, n) ==
  IF n <= 0 THEN balance
  ELSE annuityResidual(balance + (balance * annualRate) \div (MONTHS_IN_YEAR * BP) - pmt,
                       annualRate, pmt, n - 1)

\* The cohort step of the probe, seen from outside: cash credited, interest reported,
\* mortgage cohorts and mortgage line afterwards.
cohortStepSeen ==
  [paid |-> balanceOf(probe.out.st, "CashReserves") - balanceOf(probe.st, "CashReserves"),
   interest |-> probe.out.loanInterestIncome,
   cohorts |-> cohortsOf(probe.out.st, "Mortgages"),
   line |-> balanceOf(probe.out.st, "Mortgages")]

\* C16: one monthly step of a single cohort of age 0 with zero default probability credits
\* cash with the level annuity payment (P/n when r = 0), reports P*r/12 as loan interest
\* income, leaves P - (pmt - P*r/12) outstanding and, when the cohort has not matured
\* (n >= 2), leaves it in the book with age 1; a cohort of term 1 is repaid in full and
\* removed.
C16_OneMonthAmortisation ==
  (probe.op = "cohortStep" /\ probe.cohort.ageMonths = 0 /\ probe.cohort.annualPd = 0) =>
    LET P == probe.cohort.outstandingPrincipal
        r == probe.cohort.annualInterestRate
        n == probe.cohort.termMonths
        interest == (P * r) \div (MONTHS_IN_YEAR * BP)
        seen == cohortStepSeen
    IN /\ ~probe.out.thrown
       /\ r = 0 => seen.paid = P \div n
       /\ Abs(annuityResidual(P, r, seen.paid, n)) <= n + 1
       /\ seen.interest = interest
       /\ sumLoanOutstanding(seen.cohorts) = P - (seen.paid - interest)
       /\ seen.line = P - (seen.paid - interest)
       /\ n >= 2 => /\ Len(seen.cohorts) = 1
                    /\ seen.cohorts[1].ageMonths = 1
                    /\ seen.cohorts[1].outstandingPrincipal = P - (seen.paid - interest)
       /\ n = 1 => seen.cohorts = << >>

\* A cohort of 100.00 at 6% over three months has been stepped: it paid interest and
\* principal and stays in the book with age 1.
C16_Witness ==
  /\ probe.op = "cohortStep"
  /\ probe.cohort.ageMonths = 0 /\ probe.cohort.annualPd = 0
  /\ probe.cohort.annualInterestRate > 0 /\ probe.cohort.termMonths = 3
  /\ probe.cohort.outstandingPrincipal = 10000
  /\ cohortStepSeen.interest = 50
  /\ cohortStepSeen.paid > 3333 + 50 - 50
  /\ Len(cohortStepSeen.cohorts) = 1 /\ cohortStepSeen.cohorts[1].ageMonths = 1

nonLoanInterest(st) ==
  (balanceOf(st, "CashReserves") * findItem(st, "CashReserves").interestRate
     + balanceOf(st, "Gilts") * findItem(st, "Gilts").interestRate
     + balanceOf(st, "ReverseRepo") * findItem(st, "ReverseRepo").interestRate)
    \div (MONTHS_IN_YEAR * BP)

\* C17: the amount closeCapital applies to cash is operatingCashDelta - loanInterestIncome,
\* with loanInterestIncome the interest the cohort step has reported (and has credited to
\* cash together with the repayments and recoveries); cash moves by that amount at the
\* close (to zero with hasFailed when it would turn negative); and the income statement's
\* interestIncome is the non-loan interest plus loanInterestIncome, the operating cash
\* delta being interestIncome - interestExpense + feeIncome - operatingExpenses - tax.
C17_LoanInterestReachesCashOnce ==
  probe.op = "close" =>
    LET loanInterestIncome == probe.cohortStep.loanInterestIncome
        income == probe.close.c.st.incomeStatement
        cashBeforeClose == balanceOf(probe.losses.st, "CashReserves")
        cashAfterClose == balanceOf(probe.close.c.st, "CashReserves")
        applied == probe.close.operatingCashDeltaApplied
    IN /\ applied = probe.close.operatingCashDelta - loanInterestIncome
       /\ probe.close.operatingCashDelta
            = income.interestIncome - income.interestExpense + income.feeIncome
                - income.operatingExpenses - income.tax
       /\ income.interestIncome = nonLoanInterest(probe.cohortStep.st) + loanInterestIncome
       /\ cashBeforeClose + applied >= 0 => cashAfterClose = cashBeforeClose + applied
       /\ cashBeforeClose + applied < 0
            => (cashAfterClose = 0 /\ probe.close.c.st.status.hasFailed)

\* A close after a cohort step that collected loan interest: the interest is in the income
\* statement, and cash moves at the close by the operating cash delta less that interest.
C17_Witness ==
  /\ probe.op = "close"
  /\ probe.cohortStep.loanInterestIncome > 0
  /\ balanceOf(probe.cohortStep.st, "CashReserves")
       >= balanceOf(probe.entering, "CashReserves") + probe.cohortStep.loanInterestIncome
  /\ probe.close.c.st.incomeStatement.interestIncome > probe.cohortStep.loanInterestIncome
  /\ balanceOf(probe.close.c.st, "CashReserves")
       = balanceOf(probe.losses.st, "CashReserves") + probe.close.operatingCashDelta
           - probe.cohortStep.loanInterestIncome

\* The lines of a state other than those of the named products.
otherLines(st, products) ==
  {[productType |-> st.balanceSheet[k].productType, balance |-> st.balanceSheet[k].balance,
    encumberedAmount |-> st.balanceSheet[k].encumberedAmount] :
     k \in {j \in 1..Len(st.balanceSheet) : st.balanceSheet[j].productType \notin products}}

\* C18: a repo borrow of A > 0 against collateral with unencumbered amount U and haircut
\* h >= 0 borrows B = min(A, U / (1 + h)).  When B > 0 the Repurchase Agreements balance
\* (the line is created when absent) and cash rise by B each, the collateral's encumbered
\* amount rises by B * (1 + h) and stays within the collateral balance, and nothing else
\* moves.  When B <= 0 the state is unchanged and the only event is a warning.
C18_RepoBorrow ==
  (probe.op = "repoBorrow" /\ probe.amount > 0 /\ probe.haircut >= 0) =>
    LET coll == probe.collateralProduct
        U == Max(0, balanceOf(probe.st, coll) - findItem(probe.st, coll).encumberedAmount)
        B == Min(probe.amount, (U * BP) \div (BP + probe.haircut))
        after == probe.out.st
        cashUp == IF coll = "CashReserves" THEN B ELSE 0
    IN IF B > 0
       THEN /\ hasLine(after, "RepurchaseAgreements")
            /\ balanceOf(after, "RepurchaseAgreements")
                 = balanceOf(probe.st, "RepurchaseAgreements") + B
            /\ balanceOf(after, "CashReserves") = balanceOf(probe.st, "CashReserves") + B
            /\ balanceOf(after, coll) = balanceOf(probe.st, coll) + cashUp
            /\ findItem(after, coll).encumberedAmount
                 = findItem(probe.st, coll).encumberedAmount
                     + (B * (BP + probe.haircut)) \div BP
            /\ findItem(after, coll).encumberedAmount <= balanceOf(after, coll)
            /\ otherLines(after, {"RepurchaseAgreements", "CashReserves", coll})
                 = otherLines(probe.st, {"RepurchaseAgreements", "CashReserves", coll})
            /\ findItem(after, "CashReserves").encumberedAmount
                 = findItem(probe.st, "CashReserves").encumberedAmount
                     + (IF coll = "CashReserves" THEN (B * (BP + probe.haircut)) \div BP ELSE 0)
            /\ Len(probe.out.events) = 1 /\ probe.out.events[1].severity = "info"
       ELSE /\ after = probe.st
            /\ Len(probe.out.events) = 1 /\ probe.out.events[1].severity = "warning"

\* A borrow capped by the collateral: 30.00 asked against 14.00 of free gilts at a 2%
\* haircut, on a sheet without a Repurchase Agreements line.
C18_Witness ==
  /\ probe.op = "repoBorrow"
  /\ probe.collateralProduct = "Gilts" /\ probe.amount = 2000 /\ probe.haircut = 200
  /\ ~hasLine(probe.st, "RepurchaseAgreements")
  /\ findItem(probe.st, "Gilts").encumberedAmount = 1000
  /\ balanceOf(probe.out.st, "RepurchaseAgreements") = 1372
  /\ balanceOf(probe.out.st, "CashReserves") = balanceOf(probe.st, "CashReserves") + 1372
  /\ findItem(probe.out.st, "Gilts").encumberedAmount = 1000 + 1399

\* A borrow against gilts that are all pledged: nothing moves, a warning is emitted.
C18_WitnessRefused ==
  /\ probe.op = "repoBorrow"
  /\ probe.collateralProduct = "Gilts"
  /\ findItem(probe.st, "Gilts").encumberedAmount = 2400
  /\ probe.out.st = probe.st
  /\ probe.out.events[1].severity = "warning"

\* The run-off rate of a run of the given multiplier, and the demand it puts on a line.
runOffRateOf(m) ==
  Min(config.shockParameters.idiosyncraticRun.maxRunOffRate,
      config.shockParameters.idiosyncraticRun.baseRunOffRate
        + (Max(0, m - PCT) * config.shockParameters.idiosyncraticRun.incrementalRate) \div PCT)

requestedOf(st, productType, m) == (balanceOf(st, productType) * runOffRateOf(m)) \div BP

\* C19: an idiosyncratic run pays totalPaid = min(R_retail + R_corp, available cash): cash
\* falls by totalPaid, retail and corporate deposits fall by retailPaid and corporatePaid,
\* which add up to totalPaid and are each within 0 and the amount requested; when the demand
\* exceeds the cash the bank has failed and an error event is emitted.
C19_RunPaysWhatCashAllows ==
  probe.op = "run" =>
    LET m == probe.outflowRateMultiplier
        retailRequested == requestedOf(probe.st, "RetailDeposits", m)
        corporateRequested == requestedOf(probe.st, "CorporateDeposits", m)
        totalPaid == Min(retailRequested + corporateRequested,
                         Max(0, balanceOf(probe.st, "CashReserves")))
        after == probe.out.st
        retailPaid == balanceOf(probe.st, "RetailDeposits") - balanceOf(after, "RetailDeposits")
        corporatePaid ==
          balanceOf(probe.st, "CorporateDeposits") - balanceOf(after, "CorporateDeposits")
    IN /\ balanceOf(after, "CashReserves") = balanceOf(probe.st, "CashReserves") - totalPaid
       /\ retailPaid + corporatePaid = totalPaid
       /\ 0 <= retailPaid /\ retailPaid <= retailRequested
       /\ 0 <= corporatePaid /\ corporatePaid <= corporateRequested
       /\ totalPaid < retailRequested + corporateRequested =>
            /\ after.status.hasFailed
            /\ \E k \in 1..Len(probe.out.events) : probe.out.events[k].severity = "error"
       /\ totalPaid = retailRequested + corporateRequested =>
            /\ after.status.hasFailed = probe.st.status.hasFailed
            /\ \A k \in 1..Len(probe.out.events) : probe.out.events[k].severity # "error"

\* A run larger than the cash: both deposit lines are paid in part and the bank fails.
C19_Witness ==
  /\ probe.op = "run"
  /\ balanceOf(probe.st, "CashReserves") = 700
  /\ hasLine(probe.st, "RetailDeposits") /\ hasLine(probe.st, "CorporateDeposits")
  /\ balanceOf(probe.out.st, "CashReserves") = 0
  /\ balanceOf(probe.out.st, "RetailDeposits") < balanceOf(probe.st, "RetailDeposits")
  /\ balanceOf(probe.out.st, "CorporateDeposits") < balanceOf(probe.st, "CorporateDeposits")
  /\ requestedOf(probe.st, "RetailDeposits", probe.outflowRateMultiplier)
       + requestedOf(probe.st, "CorporateDeposits", probe.outflowRateMultiplier) > 700
  /\ probe.out.st.status.hasFailed

\* The growth rate of retail deposits before clamping, at own rate r, in the market the
\* behaviour sees; whether the clamp changes it.
retailGrowth(st, r) ==
  config.behaviour.depositBaselineGrowthMonthly
    + config.productParameters["RetailDeposits"].volumeElasticityToRate
        * (r - st.market.competitorRetailDepositRate)

retailGrowthClamped(st, r) ==
  clamp(retailGrowth(st, r), config.behaviour.minDepositGrowthPerStep,
        config.global.maxDepositGrowthPerStep) # retailGrowth(st, r)

\* The step reported a retail withdrawal demand that cash could not meet.
retailDemandUnmet(out) ==
  \E k \in 1..Len(out.events) :
    /\ out.events[k].message.text = "Unmet deposit withdrawal demand"
    /\ out.events[k].message.product = "RetailDeposits"

ratesCompared == probe.op = "rates" /\ ~probe.low.thrown /\ ~probe.high.thrown

marketInBounds(m) ==
  /\ 0 <= m.baseRate /\ m.baseRate <= 1200
  /\ 200 <= m.unemploymentRate /\ m.unemploymentRate <= 1200
  /\ 0 <= m.creditSpread /\ m.creditSpread <= 500
  /\ 0 <= m.competitorRetailDepositRate /\ m.competitorRetailDepositRate <= m.baseRate
  /\ 0 <= m.competitorCorporateDepositRate /\ m.competitorCorporateDepositRate <= m.baseRate
  /\ 0 <= m.competitorMortgageRate /\ m.competitorMortgageRate <= 2000

\* C21: after a market advance of any number of months, from a market whose fields shocks
\* may have moved anywhere, baseRate is in [0, 0.12], unemploymentRate in [0.02, 0.12],
\* creditSpread in [0, 0.05], the competitors' deposit rates in [0, baseRate] and their
\* mortgage rate in [0, 0.20]; so is the market of every state returned by step.
C21_MarketInBounds ==
  /\ probe.op = "market" => marketInBounds(probe.out)
  /\ (probe.op = "first" /\ ~probe.out.thrown) => marketInBounds(probe.out.nextState.market)
  /\ (probe.op = "rates" /\ ~probe.high.thrown) => marketInBounds(probe.high.nextState.market)
  /\ (probe.op = "default" /\ ~probe.out.thrown) => marketInBounds(probe.out.nextState.market)

\* A market out of every range has been advanced by two months and is back in range, the
\* unemployment rate at the top of its range.
C21_Witness ==
  /\ probe.op = "market" /\ probe.dtMonths = 2
  /\ ~marketInBounds(probe.market)
  /\ probe.market.baseRate = 5000 /\ probe.market.competitorRetailDepositRate = 3000
  /\ probe.market.creditSpread = 900 /\ probe.market.competitorMortgageRate = 2500
  /\ probe.market.macroModel.unemploymentLatent = 2000
  /\ marketInBounds(probe.out)
  /\ probe.out.unemploymentRate = 1200

\* C22: in the initial state and in every state returned by step, market.riskFreeShort is
\* the 1-year yield of the gilt curve and market.riskFreeLong its 30-year yield.
C22_RiskFreeFollowsCurve ==
  /\ state.market.riskFreeShort = state.market.giltCurve.y1
  /\ state.market.riskFreeLong = state.market.giltCurve.y30

\* The part of C22 that the code keeps: the states returned by step.
C22_ReturnedStatesFollowCurve ==
  (calls > 0 /\ ~aborted) => C22_RiskFreeFollowsCurve

\* C23: one monthly step of a cohort with ageMonths = termMonths - 1 and positive
\* outstanding repays it in full: cash is credited with the outstanding plus one month's
\* interest on it, the cohort leaves the list, and the product's line falls by the
\* outstanding.
C23_LastMonthRepaysInFull ==
  (/\ probe.op = "cohortStep"
   /\ probe.cohort.ageMonths = probe.cohort.termMonths - 1
   /\ probe.cohort.outstandingPrincipal > 0) =>
    LET P == probe.cohort.outstandingPrincipal
        interest == (P * probe.cohort.annualInterestRate) \div (MONTHS_IN_YEAR * BP)
    IN /\ ~probe.out.thrown
       /\ cohortStepSeen.paid = P + interest
       /\ cohortStepSeen.interest = interest
       /\ cohortStepSeen.cohorts = << >>
       /\ cohortStepSeen.line = balanceOf(probe.st, "Mortgages") - P
       /\ probe.out.recognizedLoanLosses["Mortgages"] = 0

\* A cohort of 100.00 at 6% in the last of its three months, with a default probability,
\* has been repaid: 100.50 of cash, no cohort left.
C23_Witness ==
  /\ probe.op = "cohortStep"
  /\ probe.cohort.termMonths = 3 /\ probe.cohort.ageMonths = 2
  /\ probe.cohort.outstandingPrincipal = 10000 /\ probe.cohort.annualInterestRate = 600
  /\ probe.cohort.annualPd > 0
  /\ balanceOf(probe.st, "Mortgages") = 10000
  /\ cohortStepSeen.paid = 10050
  /\ cohortStepSeen.cohorts = << >> /\ cohortStepSeen.line = 0

\* What C24 asks of a cohort step with a one-off loss, compared with the same step without
\* it: the book and the line stand min(loss, T) lower, T being the book after the months,
\* and recognizedLoanLosses of the product min(loss, T) higher.
extraLossApplied ==
  LET p == probe.productType
      T == sumLoanOutstanding(cohortsOf(probe.base.st, p))
      cut == Min(probe.loss, T)
  IN /\ ~probe.out.thrown
     /\ sumLoanOutstanding(cohortsOf(probe.out.st, p)) = T - cut
     /\ balanceOf(probe.out.st, p) = T - cut
     /\ probe.out.recognizedLoanLosses[p] = probe.base.recognizedLoanLosses[p] + cut

\* C24: for every dtMonths >= 0, 0 included, the cohort step applies the one-off loss of
\* a loan product: it writes the cohorts down by min(loss, total outstanding), adds that
\* to recognizedLoanLosses[product] and re-syncs the product's line.
C24_ExtraLossAppliedForEveryLength ==
  (probe.op = "extraLoss" /\ probe.dtMonths >= 0) => extraLossApplied

\* The part of C24 that the code keeps: steps of at least one month.
C24_ExtraLossAppliedAfterMonths ==
  (probe.op = "extraLoss" /\ probe.dtMonths >= 1) => extraLossApplied

\* The maturities of the probe's points, and whether its 3-point system is singular: two
\* maturities coincide.
fitMaturities == [k \in 1..3 |-> probe.points[k].mYears]

fitSingular == Cardinality({fitMaturities[k] : k \in 1..3}) < 3

fitFlatMean ==
  [level |-> (probe.points[1].y + probe.points[2].y + probe.points[3].y) \div 3,
   slope |-> 0, curvature |-> 0]

\* C25 as stated: whenever the system is singular the fit returns exactly the fallback when
\* a finite one is given, and otherwise the flat curve at the mean of the yields.
C25_SingularFitFallsBack ==
  (probe.op = "fit" /\ fitSingular) =>
    IF probe.fallback.given /\ probe.fallback.finite
    THEN probe.out = factorsOf(probe.fallback)
    ELSE probe.out = fitFlatMean

\* C25 as the code has it: a singular system returns exactly the fallback when a finite
\* one is given; without one it returns the flat curve at the mean of the yields when the
\* two points other than the first point of longest maturity coincide in maturity, and
\* otherwise a curve whose level is the yield of that longest point, fitted through the
\* other two.
C25_SingularFitFallsBackOrAnchors ==
  (probe.op = "fit" /\ fitSingular) =>
    LET m == fitMaturities
        longest == CHOOSE k \in 1..3 :
                     /\ \A j \in 1..3 : m[k] >= m[j]
                     /\ \A j \in 1..(k - 1) : m[j] < m[k]
        others == {1, 2, 3} \ {longest}
    IN IF probe.fallback.given /\ probe.fallback.finite
       THEN probe.out = factorsOf(probe.fallback)
       ELSE IF Cardinality({m[k] : k \in others}) = 1
            THEN probe.out = fitFlatMean
            ELSE /\ probe.out.level = probe.points[longest].y
                 /\ probe.out # fitFlatMean
                 /\ \A k \in others :
                      Abs(1000 * (probe.points[k].y - probe.out.level)
                            - probe.out.slope * nsLoad1(700, m[k])
                            - probe.out.curvature * nsLoad2(700, m[k])) <= 1000

\* The singular system of the test (three points at one year) with the fallback of the
\* test has returned the fallback.
C25_Witness ==
  /\ probe.op = "fit" /\ fitSingular
  /\ fitMaturities = <<1, 1, 1>>
  /\ probe.fallback.given /\ probe.fallback.finite
  /\ probe.out = [level |-> 500, slope |-> -100, curvature |-> 20]

\* The stages of the pipeline that can have produced an event, read off its message alone:
\* 1 shocks, 2 actions, 3 deposit behaviour, 4 loan behaviour, 5 capital close, 6 metrics,
\* 7 invariants, 8 cash-flow tie-out.  A cash shortfall is reported by whichever of the
\* stages 1 to 5 moved the cash.
shockTexts ==
  [depositCompetition |-> {"Shock: deposit competition"},
   marketSpreadShock |-> {"Shock: market spread widen"},
   idiosyncraticRun |-> {"Idiosyncratic run reduced retail deposits",
                         "Unmet retail withdrawal demand",
                         "Idiosyncratic run reduced corporate deposits",
                         "Unmet corporate withdrawal demand",
                         "Shock: idiosyncratic run multiplier"},
   macroDownturn |-> {"Shock: macro downturn"},
   counterpartyDefault |-> {"Counterparty default"}]

actionTexts ==
  [adjustRate |-> {"Adjusted rate"},
   issueEquity |-> {"Issued equity"},
   issueDebt |-> {"Issued debt"},
   buySellAsset |-> {"Insufficient cash to buy", "Bought", "Sold"},
   enterRepo |-> {"Repo borrow failed", "Repo borrow", "Repo lend"}]

cashTexts == {"Cash balance breached after flow", "Cash balance breached after outflow"}

firstStage(text) ==
  IF text \in cashTexts THEN 1
  ELSE IF \E t \in DOMAIN shockTexts : text \in shockTexts[t] THEN 1
  ELSE IF text = "No handler for shock type" THEN 1
  ELSE IF \E t \in DOMAIN actionTexts : text \in actionTexts[t] THEN 2
  ELSE IF text = "No handler for action type" THEN 2
  ELSE IF text \in {"Behaviour: deposit growth", "Unmet deposit withdrawal demand"} THEN 3
  ELSE IF text \in {"Behaviour: loan growth", "Insufficient cash to originate"} THEN 4
  ELSE IF text = "Regulatory breach: your bank has failed!" THEN 6
  ELSE IF text = "Cash flow statement mismatch" THEN 8
  ELSE 7

lastStage(text) == IF text \in cashTexts THEN 5 ELSE firstStage(text)

stageEvents(evs, stage) ==
  SelectSeq(evs, LAMBDA e : firstStage(e.message.text) = stage
                            /\ lastStage(e.message.text) = stage)

\* The events of one stage can be dealt out to the inputs of that stage without going back
\* in the input list: event k onwards to input i onwards.
RECURSIVE inInputOrder(_, _, _, _, _)
inInputOrder(evs, k, inputs, i, texts) ==
  \/ k > Len(evs)
  \/ \E j \in i..Len(inputs) :
       /\ inputs[j].type \in DOMAIN texts
       /\ evs[k].message.text \in texts[inputs[j].type]
       /\ inputs[j].type \in {"adjustRate", "issueDebt", "buySellAsset", "counterpartyDefault"}
            => evs[k].message.product = inputs[j].productType
       /\ inInputOrder(evs, k + 1, inputs, j, texts)

inItemOrder(evs, st) ==
  \A i \in 1..Len(evs), j \in 1..Len(evs) :
    i < j => findIndex(st.balanceSheet, evs[i].message.product)
               <= findIndex(st.balanceSheet, evs[j].message.product)

eventsInPipelineOrder(evs, input, st) ==
  /\ \A i \in 1..Len(evs), j \in 1..Len(evs) :
       i < j => firstStage(evs[i].message.text) <= lastStage(evs[j].message.text)
  /\ inInputOrder(stageEvents(evs, 1), 1, input.shocks, 1, shockTexts)
  /\ inInputOrder(stageEvents(evs, 2), 1, input.actions, 1, actionTexts)
  /\ inItemOrder(stageEvents(evs, 3), st)
  /\ inItemOrder(stageEvents(evs, 4), st)

\* C26: the event list returned by step is in pipeline order: events of the shocks first,
\* in shock input order, then events of the actions in action input order, then the
\* deposit-behaviour events and the loan-behaviour events, each in balance-sheet item
\* order, then capital close, the breach event, the invariant events and the cash-flow
\* mismatch event.
C26_EventsInPipelineOrder ==
  (calls > 0 /\ ~aborted) => eventsInPipelineOrder(events, lastInput, state)

\* A step with a shock and several actions has returned events of the shocks, the actions,
\* both behaviours and the closing checks.
C26_Witness ==
  /\ calls > 0 /\ ~aborted
  /\ Len(lastInput.actions) >= 2 /\ Len(lastInput.shocks) >= 1
  /\ \A stage \in {1, 2, 3, 4} : Len(stageEvents(events, stage)) >= 1
  /\ Len(stageEvents(events, 3)) >= 2
  /\ \E k \in 1..Len(events) : firstStage(events[k].message.text) >= 6

\* The product types on a sheet, and whether each is there once.
productTypesOf(st) == {st.balanceSheet[k].productType : k \in 1..Len(st.balanceSheet)}

duplicateFree(st) == Cardinality(productTypesOf(st)) = Len(st.balanceSheet)

\* C27: over a sequence of steps the item list never holds two items of one productType,
\* and every productType of a step's input state is in its output state.
C27_LinesUniqueAndKept ==
  probe.op = "lines" =>
    /\ duplicateFree(probe.mid.nextState) /\ duplicateFree(probe.out.nextState)
    /\ productTypesOf(probe.start) \subseteq productTypesOf(probe.mid.nextState)
    /\ productTypesOf(probe.mid.nextState) \subseteq productTypesOf(probe.out.nextState)

\* Two steps have returned: the first created the repo line and the funding line its sheet
\* lacked, the second used both again.
C27_Witness ==
  /\ probe.op = "lines"
  /\ ~probe.mid.thrown /\ ~probe.out.thrown
  /\ productTypesOf(probe.start) = ProductType \ {"WholesaleFundingST", "RepurchaseAgreements"}
  /\ productTypesOf(probe.mid.nextState) = ProductType
  /\ Len(probe.firstPlay.actions) = 4 /\ Len(probe.play.actions) = 4
  /\ balanceOf(probe.out.nextState, "RepurchaseAgreements")
       > balanceOf(probe.mid.nextState, "RepurchaseAgreements")

\* The breach event is in the list the last step returned, and a compliance flag computed
\* by that step is set.
breachAnnounced ==
  \E k \in 1..Len(events) : events[k].message.text = "Regulatory breach: your bank has failed!"

complianceBreached ==
  \/ state.compliance.cet1Breached
  \/ state.compliance.leverageBreached
  \/ state.compliance.lcrBreached
  \/ state.compliance.nsfrBreached

\* C28: the event "Regulatory breach: your bank has failed!" is in a step's event list only
\* if one of the four compliance flags computed in that step is true; a step that has
\* failed only through a cash shortfall, or whose input state had already failed, does not
\* emit it.
C28_BreachEventOnlyWithFlag ==
  (calls > 0 /\ ~aborted /\ breachAnnounced) => complianceBreached

\* What the code keeps: a step that emits the event returns a failed bank.
C28_BreachEventOnlyWhenFailed ==
  (calls > 0 /\ ~aborted /\ breachAnnounced) => state.status.hasFailed

\* What a cohort operation did to the value it handles: the cash it moved, net of the loan
\* interest it reports as income, plus the change of the loan books' cohort outstanding,
\* plus the loss it recognised.
loanBookOf(st) ==
  sumLoanOutstanding(cohortsOf(st, "Mortgages"))
    + sumLoanOutstanding(cohortsOf(st, "CorporateLoans"))

valueGap(before, after, interest, loss) ==
  (balanceOf(after, "CashReserves") - balanceOf(before, "CashReserves") - interest)
    + (loanBookOf(after) - loanBookOf(before)) + loss

\* The cohort operation the probe holds, if it holds one that returned.
cohortOperation ==
  /\ probe.op \in {"originate", "prepay", "cohortStep", "extraLoss"}
  /\ ~probe.out.thrown

cohortOperationGap ==
  IF probe.op \in {"originate", "prepay"}
  THEN valueGap(probe.st, probe.out.st, 0, 0)
  ELSE valueGap(probe.st, probe.out.st, probe.out.loanInterestIncome,
                probe.out.recognizedLoanLosses["Mortgages"]
                  + probe.out.recognizedLoanLosses["CorporateLoans"])

\* The cohorts the operation started from that the cleanup rule can have removed.
cohortsBefore == Len(cohortsOf(probe.st, "Mortgages")) + Len(cohortsOf(probe.st, "CorporateLoans"))

overAgeBefore ==
  \E p \in {"Mortgages", "CorporateLoans"} :
    \E k \in 1..Len(cohortsOf(probe.st, p)) :
      /\ cohortsOf(probe.st, p)[k].outstandingPrincipal > 0
      /\ cohortsOf(probe.st, p)[k].ageMonths >= cohortsOf(probe.st, p)[k].termMonths

\* C29: every loan-cohort operation (origination, prepayment, monthly amortisation and
\* default, extra-loss write-down) conserves value: change in cash + change in cohort
\* outstanding + loss recognised = 0, cohorts removed by the cleanup rule included.  The
\* cash is taken net of the loan interest the step reports as income.
C29_CohortOperationsConserveValue == cohortOperation => cohortOperationGap = 0

\* What the code keeps: from books whose cohorts are younger than their terms, an
\* operation loses at most 0.01 of principal for each cohort it started from.
C29_CohortOperationsConserveUpToDust ==
  (cohortOperation /\ ~overAgeBefore) =>
    /\ cohortOperationGap <= 0
    /\ -cohortOperationGap <= CLEAN_EPS * cohortsBefore

\* C30: for every built-in scenario and for no scenario, the state returned by
\* getScenarioInitialState satisfies |assets - liabilities - cet1 - at1| <= 1 and has each
\* loan line equal to its cohort sum.
C30_ScenarioStartsBalanced ==
  probe.op = "scenario" =>
    /\ Abs(identityDiff(probe.out)) <= IDENTITY_TOLERANCE
    /\ loanLinesMatchCohorts(probe.out)

\* What the code keeps: every starting state has its loan lines equal to its cohort sums,
\* and the starting states other than that of 'wholesale-funding-reliance' balance.
C30_ScenarioStartsBalancedButOne ==
  probe.op = "scenario" =>
    /\ loanLinesMatchCohorts(probe.out)
    /\ probe.scenarioId # "wholesale-funding-reliance" => identityDiff(probe.out) = 0
    /\ probe.scenarioId = "wholesale-funding-reliance" => identityDiff(probe.out) = 400

====
